---- MODULE Spec2Model ----
(***************************************************************************)
(* LogosLab: the Ratiocinator knowledge base (a map of named Propositions  *)
(* and a list of Expressions) and the fixed-point loop of                  *)
(* InferenceEngine::deduceAll, with provenance and conflict tracking.      *)
(*                                                                         *)
(* A proposition name is a sequence of characters, so that the "~" / "!"   *)
(* prefix convention of Resolution is computed as the code computes it.    *)
(* Timestamps and the confidence tag of a provenance record are not        *)
(* represented: no branch of the engine reads them.                        *)
(***************************************************************************)
EXTENDS Integers, Sequences, FiniteSets, TLC

----------------------------------------------------------------------------
(* Bounds of the model *)

\* largest knowledge base the facade calls build: map entries, expressions and
\* values derived by the caller (updatePropositionTruthValue)
MaxKB == 3
\* most expressions added
MaxExprs == 1

----------------------------------------------------------------------------
(* Tripartite logic: Proposition.h / Proposition.cpp *)

tTRUE == "TRUE"
tFALSE == "FALSE"
tUNKNOWN == "UNKNOWN"
Tripartite == {tTRUE, tFALSE, tUNKNOWN}

\* a conjunction decided by its left operand whenever that is not TRUE
TriAndLeftFirst(left, right) == IF left = tTRUE THEN right ELSE left

\* operator&&(Tripartite, Tripartite)
TriAnd(left, right) ==
    IF left = tFALSE \/ right = tFALSE THEN tFALSE
    ELSE IF left = tUNKNOWN \/ right = tUNKNOWN THEN tUNKNOWN
    ELSE tTRUE

\* operator||(Tripartite, Tripartite)
TriOr(left, right) ==
    IF left = tTRUE \/ right = tTRUE THEN tTRUE
    ELSE IF left = tUNKNOWN \/ right = tUNKNOWN THEN tUNKNOWN
    ELSE tFALSE

\* operator!(Tripartite)
TriNot(value) ==
    CASE value = tTRUE -> tFALSE
      [] value = tFALSE -> tTRUE
      [] OTHER -> tUNKNOWN

\* implies(Tripartite, Tripartite)
implies(left, right) ==
    IF left = tFALSE \/ right = tTRUE THEN tTRUE
    ELSE IF left = tTRUE /\ right = tFALSE THEN tFALSE
    ELSE tUNKNOWN

----------------------------------------------------------------------------
(* Proposition, InferenceProvenance, Conflict *)

\* InferenceProvenance(rule, prem)
InferenceProvenance(rule, prem) == [ruleFired |-> rule, premises |-> prem]

\* InferenceProvenance(): the default record
DefaultProvenance == [ruleFired |-> "", premises |-> <<>>]

\* Conflict(oldVal, newVal, oldProv, newProv)
Conflict(oldVal, newVal, oldProv, newProv) ==
    [oldValue |-> oldVal, newValue |-> newVal,
     oldProvenance |-> oldProv, newProvenance |-> newProv]

\* Proposition(): std::optional provenance_ is a sequence of length 0 or 1
DefaultProposition ==
    [prefix |-> <<>>, relation |-> "NONE", antecedent |-> <<>>, consequent |-> <<>>,
     truth_value |-> tUNKNOWN, proposition_scope |-> "NONE",
     provenance_ |-> <<>>, conflicts_ |-> <<>>]

\* Proposition::setTruthValue(Tripartite)
setTruthValue(p, valueToSet) ==
    [p EXCEPT !.truth_value = valueToSet, !.provenance_ = <<>>]

\* provenance_.value_or(InferenceProvenance())
value_or(optProv) == IF optProv = <<>> THEN DefaultProvenance ELSE optProv[1]

\* a setTruthValue that keeps only the latest Conflict
setTruthValueProvLatest(p, valueToSet, provenance) ==
    [p EXCEPT
       !.conflicts_ = IF p.truth_value # tUNKNOWN /\ p.truth_value # valueToSet
                      THEN <<Conflict(p.truth_value, valueToSet,
                                      value_or(p.provenance_), provenance)>>
                      ELSE @,
       !.truth_value = valueToSet,
       !.provenance_ = <<provenance>>]

\* Proposition::setTruthValue(Tripartite, const InferenceProvenance&)
setTruthValueProv(p, valueToSet, provenance) ==
    [p EXCEPT
       !.conflicts_ = IF p.truth_value # tUNKNOWN /\ p.truth_value # valueToSet
                      THEN Append(@, Conflict(p.truth_value, valueToSet,
                                              value_or(p.provenance_), provenance))
                      ELSE @,
       !.truth_value = valueToSet,
       !.provenance_ = <<provenance>>]

\* Proposition::setPropositionScope
setPropositionScope(p, scopeToSet) == [p EXCEPT !.proposition_scope = scopeToSet]

Quantifier == {"UNIVERSAL_AFFIRMATIVE", "UNIVERSAL_NEGATIVE",
               "PARTICULAR_AFFIRMATIVE", "PARTICULAR_NEGATIVE", "NONE"}

----------------------------------------------------------------------------
(* Names used by the bounded knowledge bases *)

nP == <<"P">>
nQ == <<"Q">>
nR == <<"R">>
nNotP == <<"~", "P">>
nK1 == <<"k", "1">>
nK2 == <<"k", "2">>
nD1 == <<"d", "1">>
nD2 == <<"d", "2">>

\* names whose truth value the caller sets directly, and the values set
FactNames == {nP, nQ, nR}
FactValues == {tTRUE, tFALSE}
\* names the caller derives with updatePropositionTruthValue
DerivedNames == {nP}

\* a rule proposition as the parser and the tests build it
RuleProp(pre, rel, ante, cons, scope) ==
    [DefaultProposition EXCEPT !.prefix = pre, !.relation = rel,
       !.antecedent = ante, !.consequent = cons, !.proposition_scope = scope]

\* (key, proposition) pairs handed to setProposition.  Parser::handleImplies
\* stores an implication under its consequent with its own prefix; the tests
\* store a disjunction under its prefix.  Key d2 holds either a disjunction
\* with a literal complementary to one of d1, or one with none.
RuleShapes ==
    { [key |-> nQ, prop |-> RuleProp(nK1, "IMPLIES", nP, nQ, "UNIVERSAL_AFFIRMATIVE")],
      [key |-> nR, prop |-> RuleProp(nK2, "IMPLIES", nQ, nR, "UNIVERSAL_AFFIRMATIVE")],
      [key |-> nD1, prop |-> RuleProp(nD1, "OR", nP, nQ, "NONE")],
      [key |-> nD2, prop |-> RuleProp(nD2, "OR", nNotP, nR, "NONE")],
      [key |-> nD2, prop |-> RuleProp(nD2, "OR", nQ, nR, "NONE")] }

\* the provenance a caller passes to updatePropositionTruthValue
CallerProvenance == InferenceProvenance("DirectAssertion", <<<<"f">>>>)

----------------------------------------------------------------------------
(* Expression: Expression.cpp *)

PRECEDENCE_NOT == 3
PRECEDENCE_AND == 2
PRECEDENCE_OR == 1
PRECEDENCE_IMPLIES == 0
PRECEDENCE_EQUIVALENT == 0

\* Expression::initializePrecedence
precedence(op) ==
    CASE op = "NOT" -> PRECEDENCE_NOT
      [] op = "AND" -> PRECEDENCE_AND
      [] op = "OR" -> PRECEDENCE_OR
      [] op = "IMPLIES" -> PRECEDENCE_IMPLIES
      [] op = "EQUIVALENT" -> PRECEDENCE_EQUIVALENT
      [] OTHER -> 0

isUnaryOperator(op) == op = "NOT"
isLeftParen(op) == op = "LPAREN"
isRightParen(op) == op = "RPAREN"

\* Token(const Proposition&): the operand's truth value is copied into the token
OperandToken(v) == [isOperand |-> TRUE, value |-> v, op |-> "NONE"]
\* Token(LogicalOperator)
OperatorToken(o) == [isOperand |-> FALSE, value |-> tUNKNOWN, op |-> o]

\* Expression::applyUnaryOperator ("ERR": std::invalid_argument)
applyUnaryOperator(value, op) == IF op = "NOT" THEN TriNot(value) ELSE "ERR"

\* binary operators with the biconditional of Kleene's logic, which is UNKNOWN
\* when either side is
applyBinaryOperatorKleene(left, right, op) ==
    CASE op = "AND" -> TriAnd(left, right)
      [] op = "OR" -> TriOr(left, right)
      [] op = "IMPLIES" -> implies(left, right)
      [] op = "EQUIVALENT" -> TriAnd(implies(left, right), implies(right, left))
      [] OTHER -> "ERR"

\* Expression::applyBinaryOperator ("ERR": std::invalid_argument)
applyBinaryOperator(left, right, op) ==
    CASE op = "AND" -> TriAnd(left, right)
      [] op = "OR" -> TriOr(left, right)
      [] op = "IMPLIES" -> implies(left, right)
      [] op = "EQUIVALENT" ->
           IF implies(left, right) = tTRUE /\ implies(right, left) = tTRUE
           THEN tTRUE ELSE tFALSE
      [] OTHER -> "ERR"

Top(stack) == stack[Len(stack)]
Pop(stack) == SubSeq(stack, 1, Len(stack) - 1)

\* the two stacks of evaluateTokenStream; err: an exception is in flight
EvalStart == [opStack |-> <<>>, valueStack |-> <<>>, err |-> FALSE]

\* the applyOperator lambda of evaluateTokenStream
applyOperator(s) ==
    IF s.opStack = <<>> THEN s
    ELSE LET op == Top(s.opStack)
             ops == Pop(s.opStack)
             n == Len(s.valueStack)
         IN IF isUnaryOperator(op)
            THEN IF n = 0 THEN [s EXCEPT !.opStack = ops, !.err = TRUE]
                 ELSE [s EXCEPT !.opStack = ops,
                         !.valueStack = Append(Pop(s.valueStack),
                                               applyUnaryOperator(Top(s.valueStack), op))]
            ELSE IF n < 2 THEN [s EXCEPT !.opStack = ops, !.err = TRUE]
                 ELSE LET r == applyBinaryOperator(s.valueStack[n - 1], s.valueStack[n], op)
                      IN IF r = "ERR" THEN [s EXCEPT !.opStack = ops, !.err = TRUE]
                         ELSE [s EXCEPT !.opStack = ops,
                                 !.valueStack = Append(SubSeq(s.valueStack, 1, n - 2), r)]

\* a pending NOT left on the operator stack until a later loop applies it
DeferUnary(s) == s

\* while (!opStack.empty() && isUnaryOperator(opStack.top())) applyOperator();
RECURSIVE ApplyPendingUnary(_)
ApplyPendingUnary(s) ==
    IF ~s.err /\ s.opStack # <<>> /\ isUnaryOperator(Top(s.opStack))
    THEN ApplyPendingUnary(applyOperator(s)) ELSE s

\* while (!opStack.empty() && !isLeftParen(opStack.top())) applyOperator();
RECURSIVE ApplyToLeftParen(_)
ApplyToLeftParen(s) ==
    IF ~s.err /\ s.opStack # <<>> /\ ~isLeftParen(Top(s.opStack))
    THEN ApplyToLeftParen(applyOperator(s)) ELSE s

\* a precedence loop that leaves operators of equal precedence on the stack
RECURSIVE ApplyStrictlyHigherPrecedence(_, _)
ApplyStrictlyHigherPrecedence(s, op) ==
    IF /\ ~s.err
       /\ s.opStack # <<>>
       /\ ~isLeftParen(Top(s.opStack))
       /\ ~isUnaryOperator(Top(s.opStack))
       /\ precedence(op) < precedence(Top(s.opStack))
    THEN ApplyStrictlyHigherPrecedence(applyOperator(s), op) ELSE s

\* the precedence loop run before a binary operator is pushed
RECURSIVE ApplyHigherPrecedence(_, _)
ApplyHigherPrecedence(s, op) ==
    IF /\ ~s.err
       /\ s.opStack # <<>>
       /\ ~isLeftParen(Top(s.opStack))
       /\ ~isUnaryOperator(Top(s.opStack))
       /\ precedence(op) <= precedence(Top(s.opStack))
    THEN ApplyHigherPrecedence(applyOperator(s), op) ELSE s

\* the final loop: apply what is left, dropping unmatched parentheses
RECURSIVE ApplyRemaining(_)
ApplyRemaining(s) ==
    IF s.err \/ s.opStack = <<>> THEN s
    ELSE IF ~isLeftParen(Top(s.opStack)) /\ ~isRightParen(Top(s.opStack))
         THEN ApplyRemaining(applyOperator(s))
         ELSE ApplyRemaining([s EXCEPT !.opStack = Pop(s.opStack)])

\* one iteration of "for (const Token& token : tokens)"
ProcessToken(s, token) ==
    IF token.isOperand
    THEN ApplyPendingUnary([s EXCEPT !.valueStack = Append(@, token.value)])
    ELSE IF isLeftParen(token.op)
    THEN [s EXCEPT !.opStack = Append(@, token.op)]
    ELSE IF isRightParen(token.op)
    THEN LET a == ApplyToLeftParen(s)
             b == IF ~a.err /\ a.opStack # <<>> /\ isLeftParen(Top(a.opStack))
                  THEN [a EXCEPT !.opStack = Pop(a.opStack)] ELSE a
         IN ApplyPendingUnary(b)
    ELSE IF isUnaryOperator(token.op)
    THEN [s EXCEPT !.opStack = Append(@, token.op)]
    ELSE LET a == ApplyHigherPrecedence(s, token.op)
         IN IF a.err THEN a ELSE [a EXCEPT !.opStack = Append(@, token.op)]

RECURSIVE ProcessTokens(_, _, _)
ProcessTokens(s, tokens, k) ==
    IF s.err \/ k > Len(tokens) THEN s
    ELSE ProcessTokens(ProcessToken(s, tokens[k]), tokens, k + 1)

\* an end of evaluateTokenStream that returns the top of a value stack holding
\* more than one value
evaluateTokenStreamTopOnly(tokens) ==
    LET s == ApplyRemaining(ProcessTokens(EvalStart, tokens, 1))
    IN IF s.err THEN "ERR"
       ELSE IF s.valueStack = <<>> THEN tUNKNOWN
       ELSE Top(s.valueStack)

\* Expression::evaluateTokenStream ("ERR": std::runtime_error)
evaluateTokenStream(tokens) ==
    LET s == ApplyRemaining(ProcessTokens(EvalStart, tokens, 1))
    IN IF s.err THEN "ERR"
       ELSE IF Len(s.valueStack) = 1 THEN s.valueStack[1]
       ELSE IF s.valueStack = <<>> THEN tUNKNOWN
       ELSE "ERR"

\* the locals of convertToPostfix: operandIndex counts the operands consumed
ConvertStart ==
    [opStack |-> <<>>, operandIndex |-> 0, needsOperand |-> TRUE,
     postfixQueue |-> <<>>, opQueue |-> <<>>]

\* while (!opStack.empty() && isUnaryOperator(opStack.top())): move it to opQueue
RECURSIVE MovePendingUnary(_)
MovePendingUnary(c) ==
    IF c.opStack # <<>> /\ isUnaryOperator(Top(c.opStack))
    THEN MovePendingUnary([c EXCEPT !.opQueue = Append(@, Top(c.opStack)),
                                    !.opStack = Pop(c.opStack)])
    ELSE c

\* the pushOperand lambda of convertToPostfix
pushOperand(c, operandValues) ==
    IF c.operandIndex < Len(operandValues)
    THEN [MovePendingUnary([c EXCEPT
                               !.postfixQueue = Append(@, operandValues[c.operandIndex + 1]),
                               !.operandIndex = @ + 1])
            EXCEPT !.needsOperand = FALSE]
    ELSE c

\* at a right parenthesis: pop to the matching left one; a unary operator met
\* on the way is dropped
RECURSIVE MoveToLeftParen(_)
MoveToLeftParen(c) ==
    IF c.opStack # <<>> /\ ~isLeftParen(Top(c.opStack))
    THEN MoveToLeftParen([c EXCEPT
            !.opQueue = IF isUnaryOperator(Top(c.opStack)) THEN @
                        ELSE Append(@, Top(c.opStack)),
            !.opStack = Pop(c.opStack)])
    ELSE c

\* before a binary operator is pushed: move operators of higher or equal
\* precedence to opQueue
RECURSIVE MoveHigherPrecedence(_, _)
MoveHigherPrecedence(c, currentOp) ==
    IF /\ c.opStack # <<>>
       /\ ~isLeftParen(Top(c.opStack))
       /\ ~isUnaryOperator(Top(c.opStack))
       /\ precedence(currentOp) <= precedence(Top(c.opStack))
    THEN MoveHigherPrecedence([c EXCEPT !.opQueue = Append(@, Top(c.opStack)),
                                        !.opStack = Pop(c.opStack)], currentOp)
    ELSE c

\* "if (needsOperand) pushOperand();"
pushIfNeeded(c, operandValues) ==
    IF c.needsOperand THEN pushOperand(c, operandValues) ELSE c

\* "if (!opStack.empty() && isLeftParen(opStack.top())) opStack.pop();"
PopLeftParen(c) ==
    IF c.opStack # <<>> /\ isLeftParen(Top(c.opStack))
    THEN [c EXCEPT !.opStack = Pop(c.opStack)] ELSE c

\* a right parenthesis, once the last operand of the group was consumed
CloseGroup(c) ==
    [MovePendingUnary(PopLeftParen(MoveToLeftParen(c))) EXCEPT !.needsOperand = FALSE]

\* a binary operator, once its left operand was consumed
PushBinary(c, currentOp) ==
    [MoveHigherPrecedence(c, currentOp) EXCEPT !.opStack = Append(@, currentOp),
                                               !.needsOperand = TRUE]

\* one iteration of "for (size_t i = 0; i < operators.size(); ++i)"
ConvertOperator(c, currentOp, operandValues) ==
    IF isLeftParen(currentOp)
    THEN [c EXCEPT !.opStack = Append(@, currentOp), !.needsOperand = TRUE]
    ELSE IF isRightParen(currentOp)
    THEN CloseGroup(pushIfNeeded(c, operandValues))
    ELSE IF isUnaryOperator(currentOp)
    THEN [c EXCEPT !.opStack = Append(@, currentOp)]
    ELSE PushBinary(pushIfNeeded(c, operandValues), currentOp)

RECURSIVE ConvertOperators(_, _, _, _)
ConvertOperators(c, operatorsVec, operandValues, k) ==
    IF k > Len(operatorsVec) THEN c
    ELSE ConvertOperators(ConvertOperator(c, operatorsVec[k], operandValues),
                          operatorsVec, operandValues, k + 1)

\* "while (operandIndex < operands.size())": the operands not yet consumed
RECURSIVE PushRemainingOperands(_, _)
PushRemainingOperands(c, operandValues) ==
    IF c.operandIndex < Len(operandValues)
    THEN PushRemainingOperands(
            MovePendingUnary([c EXCEPT
                !.postfixQueue = Append(@, operandValues[c.operandIndex + 1]),
                !.operandIndex = @ + 1]),
            operandValues)
    ELSE c

\* "while (!opStack.empty())": the operators left, parentheses skipped
RECURSIVE MoveRemaining(_)
MoveRemaining(c) ==
    IF c.opStack = <<>> THEN c
    ELSE MoveRemaining([c EXCEPT
            !.opQueue = IF ~isLeftParen(Top(c.opStack)) /\ ~isRightParen(Top(c.opStack))
                        THEN Append(@, Top(c.opStack)) ELSE @,
            !.opStack = Pop(c.opStack)])

\* Expression::convertToPostfix: the operand values go to postfixQueue, the
\* operators to opQueue
convertToPostfix(operandValues, operatorsVec) ==
    MoveRemaining(PushRemainingOperands(
        ConvertOperators(ConvertStart, operatorsVec, operandValues, 1), operandValues))

\* the operator loop of evaluatePostfix over evalStack ("ERR": an exception)
RECURSIVE ApplyQueue(_, _, _)
ApplyQueue(evalStack, opQueue, k) ==
    IF k > Len(opQueue) THEN evalStack
    ELSE LET op == opQueue[k]
             n == Len(evalStack)
         IN IF isUnaryOperator(op)
            THEN IF n = 0 THEN "ERR"
                 ELSE ApplyQueue(Append(Pop(evalStack), applyUnaryOperator(Top(evalStack), op)),
                                 opQueue, k + 1)
            ELSE IF n < 2 THEN "ERR"
                 ELSE LET r == applyBinaryOperator(evalStack[n - 1], evalStack[n], op)
                      IN IF r = "ERR" THEN "ERR"
                         ELSE ApplyQueue(Append(SubSeq(evalStack, 1, n - 2), r),
                                         opQueue, k + 1)

\* the end of evaluatePostfix: one value must be left
OnlyValue(evalStack) ==
    IF evalStack = "ERR" THEN "ERR"
    ELSE IF Len(evalStack) = 1 THEN evalStack[1]
    ELSE "ERR"

\* Expression::evaluatePostfix: every operand is pushed first, then the
\* operators are applied in queue order ("ERR": an exception)
evaluatePostfix(postfixQueue, opQueue) == OnlyValue(ApplyQueue(postfixQueue, opQueue, 1))

\* evaluatePostfix on the two queues convertToPostfix has filled
EvaluateConverted(c) == evaluatePostfix(c.postfixQueue, c.opQueue)

\* Expression::Expression(): operands holds the truth values of the
\* Propositions copied by addOperand
DefaultExpression ==
    [prefix |-> <<>>, operands |-> <<>>, operators |-> <<>>, tokens |-> <<>>,
     useTokenStream |-> FALSE, isEvaluated |-> FALSE, evaluatedValue |-> tUNKNOWN]

\* Expression built with addToken (useTokenStream = true) and setPrefix
TokenExpression(pre, toks) ==
    [DefaultExpression EXCEPT !.prefix = pre, !.tokens = toks, !.useTokenStream = TRUE]

\* the branch of evaluate taken when no value is cached ("ERR": it throws)
ComputeValue(expr) ==
    IF expr.useTokenStream
    THEN IF expr.tokens = <<>> THEN tUNKNOWN ELSE evaluateTokenStream(expr.tokens)
    ELSE IF expr.operands = <<>> THEN tUNKNOWN
         ELSE EvaluateConverted(convertToPostfix(expr.operands, expr.operators))

\* "evaluatedValue = ...; isEvaluated = true; return evaluatedValue;", which an
\* exception skips
CacheValue(expr, v) ==
    IF v = "ERR" THEN [value |-> "ERR", expr |-> expr]
    ELSE [value |-> v, expr |-> [expr EXCEPT !.evaluatedValue = v, !.isEvaluated = TRUE]]

\* Expression::evaluate: the value returned ("ERR" when it throws) and the
\* expression afterwards
evaluate(expr) ==
    IF expr.isEvaluated THEN [value |-> expr.evaluatedValue, expr |-> expr]
    ELSE CacheValue(expr, ComputeValue(expr))

\* token streams of the expressions handed to addExpression
ExprStreams ==
    { <<OperandToken(tTRUE)>>,
      <<OperatorToken("NOT"), OperandToken(tTRUE)>>,
      <<OperandToken(tUNKNOWN), OperatorToken("AND"), OperandToken(tTRUE)>>,
      <<OperandToken(tTRUE), OperatorToken("AND")>> }

\* names an expression may target
ExprTargets == {nP}

----------------------------------------------------------------------------
(* InferenceEngine helpers: InferenceEngine.cpp *)

\* findProposition(name, propositions) != nullptr
findProposition(name, propositions) == name \in DOMAIN propositions

\* a lookup that reads a missing name as FALSE
TruthOfMissingFalse(name, propositions) ==
    IF findProposition(name, propositions) THEN propositions[name].truth_value
    ELSE tFALSE

\* "p ? p->getTruthValue() : Tripartite::UNKNOWN"
TruthOf(name, propositions) ==
    IF findProposition(name, propositions) THEN propositions[name].truth_value
    ELSE tUNKNOWN

isNegatedName(name) == name # <<>> /\ (name[1] = "~" \/ name[1] = "!")

getBaseName(name) == IF isNegatedName(name) THEN Tail(name) ELSE name

\* The engine's working state inside one step: ps is the propositions map,
\* ws the writes made so far by the step (what was replaced, what came in,
\* whether the write appended a Conflict, whether it created the entry),
\* ret the bool the rule function returns.
EngineState(propositions) == [ps |-> propositions, ws |-> <<>>, ret |-> FALSE]

WriteRecord(name, existed, old, new, kind, rule, via) ==
    [name |-> name, old |-> old.truth_value, new |-> new.truth_value,
     prov |-> new.provenance_, oldProv |-> old.provenance_,
     appended |-> Len(new.conflicts_) > Len(old.conflicts_),
     created |-> ~existed, kind |-> kind, rule |-> rule, via |-> via]

\* a write that assigns a default-constructed Proposition holding the value
DeriveIntoFresh(st, name, v, prov, via) ==
    LET existed == findProposition(name, st.ps)
        old == IF existed THEN st.ps[name] ELSE DefaultProposition
        new == setTruthValueProv(DefaultProposition, v, prov)
    IN [ps |-> (name :> new) @@ st.ps,
        ws |-> Append(st.ws, WriteRecord(name, existed, old, new, "rule", prov.ruleFired, via)),
        ret |-> TRUE]

\* "if (p) p->setTruthValue(v, prov); else propositions[name].setTruthValue(v, prov);"
\* operator[] default-constructs the missing entry
DeriveInto(st, name, v, prov, via) ==
    LET existed == findProposition(name, st.ps)
        old == IF existed THEN st.ps[name] ELSE DefaultProposition
        new == setTruthValueProv(old, v, prov)
    IN [ps |-> (name :> new) @@ st.ps,
        ws |-> Append(st.ws, WriteRecord(name, existed, old, new, "rule", prov.ruleFired, via)),
        ret |-> TRUE]

\* subjectProp->setTruthValue(v) in the expression phase
AssignInto(st, name, v, kind) ==
    LET existed == findProposition(name, st.ps)
        old == IF existed THEN st.ps[name] ELSE DefaultProposition
        new == setTruthValue(old, v)
    IN [ps |-> (name :> new) @@ st.ps,
        ws |-> Append(st.ws, WriteRecord(name, existed, old, new, kind, "", <<>>)),
        ret |-> TRUE]

----------------------------------------------------------------------------
(* The five inference rules.  A "const Proposition&" argument is the key of *)
(* the map entry it refers to.                                             *)

\* applyModusPonens with a guard that fires only over a FALSE consequent
applyModusPonensOnFalse(implication, st) ==
    LET impl == st.ps[implication]
        antecedentName == impl.antecedent
        consequentName == impl.consequent
        antecedentTruth == TruthOf(antecedentName, st.ps)
        consequentTruth == TruthOf(consequentName, st.ps)
    IN IF antecedentTruth = tTRUE /\ consequentTruth = tFALSE
       THEN DeriveInto(st, consequentName, tTRUE,
                       InferenceProvenance("ModusPonens", <<antecedentName, impl.prefix>>),
                       <<implication>>)
       ELSE [st EXCEPT !.ret = FALSE]

\* applyModusPonens without the test that the consequent is not yet TRUE
applyModusPonensUnguarded(implication, st) ==
    LET impl == st.ps[implication]
        antecedentName == impl.antecedent
        consequentName == impl.consequent
        antecedentTruth == TruthOf(antecedentName, st.ps)
    IN IF antecedentTruth = tTRUE
       THEN DeriveInto(st, consequentName, tTRUE,
                       InferenceProvenance("ModusPonens", <<antecedentName, impl.prefix>>),
                       <<implication>>)
       ELSE [st EXCEPT !.ret = FALSE]

\* InferenceEngine::applyModusPonens
applyModusPonens(implication, st) ==
    LET impl == st.ps[implication]
        antecedentName == impl.antecedent
        consequentName == impl.consequent
        antecedentTruth == TruthOf(antecedentName, st.ps)
        consequentTruth == TruthOf(consequentName, st.ps)
    IN IF antecedentTruth = tTRUE /\ consequentTruth # tTRUE
       THEN DeriveInto(st, consequentName, tTRUE,
                       InferenceProvenance("ModusPonens", <<antecedentName, impl.prefix>>),
                       <<implication>>)
       ELSE [st EXCEPT !.ret = FALSE]

\* applyModusTollens naming the implication by its key in the map
applyModusTollensKeyed(implication, st) ==
    LET impl == st.ps[implication]
        antecedentName == impl.antecedent
        consequentName == impl.consequent
        antecedentTruth == TruthOf(antecedentName, st.ps)
        consequentTruth == TruthOf(consequentName, st.ps)
    IN IF consequentTruth = tFALSE /\ antecedentTruth # tFALSE
       THEN DeriveInto(st, antecedentName, tFALSE,
                       InferenceProvenance("ModusTollens", <<consequentName, implication>>),
                       <<implication>>)
       ELSE [st EXCEPT !.ret = FALSE]

\* InferenceEngine::applyModusTollens
applyModusTollens(implication, st) ==
    LET impl == st.ps[implication]
        antecedentName == impl.antecedent
        consequentName == impl.consequent
        antecedentTruth == TruthOf(antecedentName, st.ps)
        consequentTruth == TruthOf(consequentName, st.ps)
    IN IF consequentTruth = tFALSE /\ antecedentTruth # tFALSE
       THEN DeriveInto(st, antecedentName, tFALSE,
                       InferenceProvenance("ModusTollens", <<consequentName, impl.prefix>>),
                       <<implication>>)
       ELSE [st EXCEPT !.ret = FALSE]

\* InferenceEngine::applyHypotheticalSyllogism: pTruth and rTruth are read
\* once, before either write
applyHypotheticalSyllogism(impl1, impl2, st) ==
    LET i1 == st.ps[impl1]
        i2 == st.ps[impl2]
    IN IF i1.consequent # i2.antecedent THEN [st EXCEPT !.ret = FALSE]
       ELSE LET P == i1.antecedent
                R == i2.consequent
                pTruth == TruthOf(P, st.ps)
                rTruth == TruthOf(R, st.ps)
                fwd == IF pTruth = tTRUE /\ rTruth # tTRUE
                       THEN DeriveInto(st, R, tTRUE,
                              InferenceProvenance("HypotheticalSyllogism",
                                                  <<P, i1.prefix, i2.prefix>>),
                              <<impl1, impl2>>)
                       ELSE [st EXCEPT !.ret = FALSE]
            IN IF rTruth = tFALSE /\ pTruth # tFALSE
               THEN DeriveInto(fwd, P, tFALSE,
                      InferenceProvenance("HypotheticalSyllogism",
                                          <<R, i2.prefix, i1.prefix>>),
                      <<impl1, impl2>>)
               ELSE fwd

\* applyDisjunctiveSyllogism taking a disjunct that is not TRUE for a FALSE one
applyDisjunctiveSyllogismEager(disjunction, st) ==
    LET d == st.ps[disjunction]
        leftDisjunct == d.antecedent
        rightDisjunct == d.consequent
        leftTruth == TruthOf(leftDisjunct, st.ps)
        rightTruth == TruthOf(rightDisjunct, st.ps)
        case1 == IF leftTruth # tTRUE /\ rightTruth # tTRUE
                 THEN DeriveInto(st, rightDisjunct, tTRUE,
                        InferenceProvenance("DisjunctiveSyllogism",
                                            <<leftDisjunct, d.prefix>>),
                        <<disjunction>>)
                 ELSE [st EXCEPT !.ret = FALSE]
    IN IF rightTruth = tFALSE /\ leftTruth # tTRUE
       THEN DeriveInto(case1, leftDisjunct, tTRUE,
              InferenceProvenance("DisjunctiveSyllogism", <<rightDisjunct, d.prefix>>),
              <<disjunction>>)
       ELSE case1

\* InferenceEngine::applyDisjunctiveSyllogism: leftTruth and rightTruth are
\* read once, before either write
applyDisjunctiveSyllogism(disjunction, st) ==
    LET d == st.ps[disjunction]
        leftDisjunct == d.antecedent
        rightDisjunct == d.consequent
        leftTruth == TruthOf(leftDisjunct, st.ps)
        rightTruth == TruthOf(rightDisjunct, st.ps)
        case1 == IF leftTruth = tFALSE /\ rightTruth # tTRUE
                 THEN DeriveInto(st, rightDisjunct, tTRUE,
                        InferenceProvenance("DisjunctiveSyllogism",
                                            <<leftDisjunct, d.prefix>>),
                        <<disjunction>>)
                 ELSE [st EXCEPT !.ret = FALSE]
    IN IF rightTruth = tFALSE /\ leftTruth # tTRUE
       THEN DeriveInto(case1, leftDisjunct, tTRUE,
              InferenceProvenance("DisjunctiveSyllogism", <<rightDisjunct, d.prefix>>),
              <<disjunction>>)
       ELSE case1

\* the complementarity test without the comparison of polarities
ComplementaryAnyPolarity(lit1, lit2) == getBaseName(lit1) = getBaseName(lit2)

\* two literals are complementary: same base name, different polarity
Complementary(lit1, lit2) ==
    getBaseName(lit1) = getBaseName(lit2) /\ isNegatedName(lit1) # isNegatedName(lit2)

\* the tryResolve lambda of applyResolution; it reads the truth values afresh
tryResolve(lit1, other1, lit2, other2, disj1, disj2, st) ==
    IF Complementary(lit1, lit2)
    THEN LET other1Truth == TruthOf(other1, st.ps)
             other2Truth == TruthOf(other2, st.ps)
         IN IF other1Truth = tFALSE /\ other2Truth # tTRUE
            THEN DeriveInto(st, other2, tTRUE,
                   InferenceProvenance("Resolution",
                     <<st.ps[disj1].prefix, st.ps[disj2].prefix, other1>>),
                   <<disj1, disj2>>)
            ELSE IF other2Truth = tFALSE /\ other1Truth # tTRUE
            THEN DeriveInto(st, other1, tTRUE,
                   InferenceProvenance("Resolution",
                     <<st.ps[disj1].prefix, st.ps[disj2].prefix, other2>>),
                   <<disj1, disj2>>)
            ELSE [st EXCEPT !.ret = FALSE]
    ELSE [st EXCEPT !.ret = FALSE]

\* InferenceEngine::applyResolution
applyResolution(disj1, disj2, st) ==
    LET p1Left == st.ps[disj1].antecedent
        p1Right == st.ps[disj1].consequent
        p2Left == st.ps[disj2].antecedent
        p2Right == st.ps[disj2].consequent
        r1 == tryResolve(p1Left, p1Right, p2Left, p2Right, disj1, disj2, st)
        r2 == tryResolve(p1Left, p1Right, p2Right, p2Left, disj1, disj2, r1)
        r3 == tryResolve(p1Right, p1Left, p2Left, p2Right, disj1, disj2, r2)
        r4 == tryResolve(p1Right, p1Left, p2Right, p2Left, disj1, disj2, r3)
    IN [r4 EXCEPT !.ret = r1.ret \/ r2.ret \/ r3.ret \/ r4.ret]

\* the switch with a PARTICULAR_NEGATIVE case that forgets "currentValue != TRUE"
ScopeUpdateNegativeOverTrue(scope, currentValue, resultValue) ==
    CASE scope = "UNIVERSAL_AFFIRMATIVE" ->
           IF currentValue # resultValue /\ resultValue = tTRUE THEN tTRUE ELSE "KEEP"
      [] scope = "UNIVERSAL_NEGATIVE" ->
           IF currentValue # resultValue /\ resultValue = tFALSE THEN tFALSE ELSE "KEEP"
      [] scope = "PARTICULAR_AFFIRMATIVE" ->
           IF resultValue = tTRUE THEN tTRUE ELSE "KEEP"
      [] scope = "PARTICULAR_NEGATIVE" ->
           IF resultValue = tFALSE THEN tFALSE ELSE "KEEP"
      [] OTHER -> "KEEP"

\* a switch whose universal cases adopt any result that differs
ScopeUpdateAnyResult(scope, currentValue, resultValue) ==
    CASE scope = "UNIVERSAL_AFFIRMATIVE" ->
           IF currentValue # resultValue THEN resultValue ELSE "KEEP"
      [] scope = "UNIVERSAL_NEGATIVE" ->
           IF currentValue # resultValue THEN resultValue ELSE "KEEP"
      [] scope = "PARTICULAR_AFFIRMATIVE" ->
           IF resultValue = tTRUE THEN tTRUE ELSE "KEEP"
      [] scope = "PARTICULAR_NEGATIVE" ->
           IF resultValue = tFALSE /\ currentValue # tTRUE THEN tFALSE ELSE "KEEP"
      [] OTHER -> "KEEP"

\* the switch on the target's scope in phase 5 of deduceAll: the value the
\* target adopts, or "KEEP" when the case leaves it alone
ScopeUpdate(scope, currentValue, resultValue) ==
    CASE scope = "UNIVERSAL_AFFIRMATIVE" ->
           IF currentValue # resultValue /\ resultValue = tTRUE THEN tTRUE ELSE "KEEP"
      [] scope = "UNIVERSAL_NEGATIVE" ->
           IF currentValue # resultValue /\ resultValue = tFALSE THEN tFALSE ELSE "KEEP"
      [] scope = "PARTICULAR_AFFIRMATIVE" ->
           IF resultValue = tTRUE THEN tTRUE ELSE "KEEP"
      [] scope = "PARTICULAR_NEGATIVE" ->
           IF resultValue = tFALSE /\ currentValue # tTRUE THEN tFALSE ELSE "KEEP"
      [] OTHER -> "KEEP"

----------------------------------------------------------------------------
(* State *)

VARIABLES
    props,        \* Ratiocinator::propositions_: name -> Proposition
    exprs,        \* Ratiocinator::expressions_
    pc,           \* where deduceAll stands: "idle", "phase1".."phase5", "done", "threw"
    order,        \* iteration order of the map over its IMPLIES / OR entries
                  \* (every loop of deduceAll skips the other entries)
    todo,         \* entries the running range-for has still to visit
    vec,          \* the implications / disjunctions vector of phase 2 / 4
    i, j,         \* loop indices of phase 2 / 4
    e,            \* index of the expression phase 5 is at
    changesMade,  \* the flag of the do-while loop
    passStart,    \* history: the knowledge base when the current pass began
    kb0,          \* history: the propositions map when deduceAll was called
    lastWrites,   \* history: the truth-value writes made by the last step
    origin,       \* history: how each entry's current value was set
    nDerives,     \* calls of updatePropositionTruthValue made so far
    traced        \* history: the name and the steps of a traceInference call
                  \* that has just returned

VARIABLES
    built,        \* the Expression object under construction and evaluation
    plan,         \* the infix sequence the caller adds to it, token by token
    form,         \* history: how the sequence is put together
    operands,     \* the truth value each source Proposition holds now
    results       \* history: what each call of evaluate returned

VARIABLES
    caller        \* a caller that deduces before it has added everything:
                  \* batch is the propositions_ of a second Ratiocinator given
                  \* the same calls without the early deduce, returned counts
                  \* the calls of deduce that have returned

engineVars == <<props, exprs, pc, order, todo, vec, i, j, e, changesMade,
          passStart, kb0, lastWrites, origin, nDerives, traced>>

evalVars == <<built, plan, form, operands, results, caller>>

vars == <<props, exprs, pc, order, todo, vec, i, j, e, changesMade,
          passStart, kb0, lastWrites, origin, nDerives, traced,
          built, plan, form, operands, results, caller>>

RuleKeys(ps) == {k \in DOMAIN ps : ps[k].relation \in {"IMPLIES", "OR"}}

\* every order in which an unordered_map may hand out the keys S
Perms(S) ==
    {f \in [1..Cardinality(S) -> S] :
        \A a, b \in 1..Cardinality(S) : a # b => f[a] # f[b]}

\* what a traversal standing at key k still has to visit
RECURSIVE SuffixAfter(_, _)
SuffixAfter(seq, k) ==
    IF seq = <<>> THEN <<>>
    ELSE IF Head(seq) = k THEN Tail(seq) ELSE SuffixAfter(Tail(seq), k)

\* the push_back loops that fill the implications / disjunctions vectors
RECURSIVE Collect(_, _, _)
Collect(seq, ps, rel) ==
    IF seq = <<>> THEN <<>>
    ELSE IF ps[Head(seq)].relation = rel
         THEN <<Head(seq)>> \o Collect(Tail(seq), ps, rel)
         ELSE Collect(Tail(seq), ps, rel)

\* phase 2 visits every (i, j) with i # j, j innermost; <<n + 1, 1>> ends it
RECURSIVE NextPairHS(_, _, _)
NextPairHS(a, b, n) ==
    LET a2 == IF b < n THEN a ELSE a + 1
        b2 == IF b < n THEN b + 1 ELSE 1
    IN IF a2 > n THEN <<n + 1, 1>>
       ELSE IF a2 = b2 THEN NextPairHS(a2, b2, n)
       ELSE <<a2, b2>>

\* phase 4 visits every (i, j) with i < j; a pair with j > n ends it
NextPairRes(a, b, n) == IF b < n THEN <<a, b + 1>> ELSE <<a + 1, a + 2>>

TruthMap(ps) == [n \in DOMAIN ps |-> ps[n].truth_value]

RECURSIVE ApplyWrites(_, _, _)
ApplyWrites(orig, ws, k) ==
    IF k > Len(ws) THEN orig
    ELSE ApplyWrites((ws[k].name :> ws[k].kind) @@ orig, ws, k + 1)

KBSize == Cardinality(DOMAIN props) + Len(exprs) + nDerives

----------------------------------------------------------------------------
(* Ratiocinator facade: the calls that build the knowledge base *)

\* Ratiocinator(): both collections empty
\* no call of traceInference has just returned
NoTrace == [name |-> <<>>, steps |-> <<>>]

\* names traceInference is called with; no entry is ever stored under nK1
TraceNames == {nP, nQ, nR, nD1, nK1}

\* struct InferenceStep
InferenceStep(proposition, truthValue, rule, premises, depth) ==
    [proposition |-> proposition, truthValue |-> truthValue, rule |-> rule,
     premises |-> premises, depth |-> depth]

\* Ratiocinator::traceInferenceRecursive: acc holds the trace vector and the
\* visited set, both passed by reference; TracePremises is its loop over the
\* premises
RECURSIVE traceInferenceRecursive(_, _, _, _)
RECURSIVE TracePremises(_, _, _, _, _)
RECURSIVE TracePremisesByValue(_, _, _, _, _)

\* a loop over the premises whose visited set is a copy: what one premise's
\* subtree visited is forgotten before the next premise is traced
TracePremisesByValue(ps, premises, k, acc, depth) ==
    IF k > Len(premises) THEN acc
    ELSE LET r == traceInferenceRecursive(ps, premises[k], acc, depth)
         IN TracePremisesByValue(ps, premises, k + 1,
                                 [r EXCEPT !.visited = acc.visited], depth)

traceInferenceRecursive(ps, name, acc, depth) ==
    IF name \in acc.visited THEN acc
    ELSE LET seen == [acc EXCEPT !.visited = @ \cup {name}]
         IN IF name \notin DOMAIN ps THEN seen
            ELSE LET prop == ps[name]
                     hasProvenance == prop.provenance_ # <<>>
                     step == IF hasProvenance
                             THEN InferenceStep(name, prop.truth_value,
                                                prop.provenance_[1].ruleFired,
                                                prop.provenance_[1].premises, depth)
                             ELSE InferenceStep(name, prop.truth_value, "Axiom", <<>>, depth)
                     pushed == [seen EXCEPT !.trace = Append(@, step)]
                 IN IF hasProvenance
                    THEN TracePremises(ps, prop.provenance_[1].premises, 1, pushed, depth + 1)
                    ELSE pushed

TracePremises(ps, premises, k, acc, depth) ==
    IF k > Len(premises) THEN acc
    ELSE TracePremises(ps, premises, k + 1,
                       traceInferenceRecursive(ps, premises[k], acc, depth), depth)

\* a trace whose target step is numbered 1
traceInferenceFromOne(ps, name) ==
    traceInferenceRecursive(ps, name, [trace |-> <<>>, visited |-> {}], 1).trace

\* Ratiocinator::traceInference
traceInference(ps, name) ==
    traceInferenceRecursive(ps, name, [trace |-> <<>>, visited |-> {}], 0).trace

EngineInit ==
    /\ props = <<>>
    /\ exprs = <<>>
    /\ pc = "idle"
    /\ order = <<>>
    /\ todo = <<>>
    /\ vec = <<>>
    /\ i = 1
    /\ j = 1
    /\ e = 1
    /\ changesMade = FALSE
    /\ passStart = [props |-> <<>>, exprs |-> <<>>]
    /\ kb0 = <<>>
    /\ lastWrites = <<>>
    /\ origin = <<>>
    /\ nDerives = 0
    /\ traced = NoTrace

\* no call of deduce has returned, nothing was added
NoCaller == [batch |-> <<>>, returned |-> 0]

\* no expression is under test
NoBuild ==
    /\ built = DefaultExpression
    /\ plan = <<>>
    /\ form = [kind |-> "none", op1 |-> "NONE", op2 |-> "NONE"]
    /\ operands = [n \in {} |-> tUNKNOWN]
    /\ results = <<>>
    /\ caller = NoCaller

Init == EngineInit /\ NoBuild

EngineIdle == UNCHANGED <<pc, order, todo, vec, i, j, e, changesMade, passStart, kb0>>

\* Ratiocinator::setProposition: propositions_[name] = prop
SetProposition(shape) ==
    /\ UNCHANGED evalVars
    /\ traced' = NoTrace
    /\ pc = "idle"
    /\ shape.key \notin DOMAIN props => KBSize < MaxKB
    /\ props' = (shape.key :> shape.prop) @@ props
    /\ origin' = (shape.key :> "none") @@ origin
    /\ lastWrites' = <<>>
    /\ UNCHANGED <<exprs, nDerives>>
    /\ EngineIdle

\* Ratiocinator::setPropositionTruthValue: propositions_[name].setTruthValue(value)
SetPropositionTruthValue(name, value) ==
    /\ UNCHANGED evalVars
    /\ traced' = NoTrace
    /\ pc = "idle"
    /\ name \notin DOMAIN props => KBSize < MaxKB
    /\ LET st == AssignInto(EngineState(props), name, value, "assert")
       IN /\ props' = st.ps
          /\ lastWrites' = st.ws
          /\ origin' = ApplyWrites(origin, st.ws, 1)
    /\ UNCHANGED <<exprs, nDerives>>
    /\ EngineIdle

\* Ratiocinator::updatePropositionTruthValue on a name that is present
UpdatePropositionTruthValue(name, value, provenance) ==
    /\ UNCHANGED evalVars
    /\ traced' = NoTrace
    /\ pc = "idle"
    /\ name \in DOMAIN props
    /\ KBSize < MaxKB
    /\ LET old == props[name]
           new == setTruthValueProv(old, value, provenance)
       IN /\ props' = (name :> new) @@ props
          /\ lastWrites' = <<WriteRecord(name, TRUE, old, new, "derive",
                                         provenance.ruleFired, <<>>)>>
          /\ origin' = (name :> "derive") @@ origin
    /\ nDerives' = nDerives + 1
    /\ UNCHANGED exprs
    /\ EngineIdle

\* getProposition(name)->setPropositionScope(scope), for the target of an
\* expression (deduceAll reads the scope of no other entry)
SetScope(name, scope) ==
    /\ UNCHANGED evalVars
    /\ traced' = NoTrace
    /\ pc = "idle"
    /\ name \in DOMAIN props
    /\ \E k \in 1..Len(exprs) : exprs[k].prefix = name
    /\ props[name].proposition_scope # scope
    /\ props' = [props EXCEPT ![name] = setPropositionScope(@, scope)]
    /\ lastWrites' = <<>>
    /\ UNCHANGED <<exprs, origin, nDerives>>
    /\ EngineIdle

\* Ratiocinator::addExpression
AddExpression(target, tokens) ==
    /\ UNCHANGED evalVars
    /\ traced' = NoTrace
    /\ pc = "idle"
    /\ Len(exprs) < MaxExprs
    /\ KBSize < MaxKB
    /\ exprs' = Append(exprs, TokenExpression(target, tokens))
    /\ lastWrites' = <<>>
    /\ UNCHANGED <<props, origin, nDerives>>
    /\ EngineIdle

----------------------------------------------------------------------------
(* InferenceEngine::deduceAll, one loop iteration per step *)

Running == pc \in {"phase1", "phase2", "phase3", "phase4", "phase5"}

\* An insertion into the unordered_map may rehash it: afterwards the entries
\* may be handed out in any order.
OrdersAfter(ps) == IF DOMAIN ps # DOMAIN props THEN Perms(RuleKeys(ps)) ELSE {order}

\* what every rule step does with the outcome st of its rule function
Commit(st) ==
    /\ props' = st.ps
    /\ lastWrites' = st.ws
    /\ origin' = ApplyWrites(origin, st.ws, 1)
    /\ changesMade' = (changesMade \/ st.ret)
    /\ UNCHANGED <<exprs, passStart, kb0, nDerives>>

\* Ratiocinator::deduce: the call of deduceAll, up to the first range-for
Deduce ==
    /\ UNCHANGED evalVars
    /\ traced' = NoTrace
    /\ pc = "idle"
    /\ \E ord \in Perms(RuleKeys(props)) :
         /\ order' = ord
         /\ todo' = ord
    /\ pc' = "phase1"
    /\ changesMade' = FALSE
    /\ passStart' = [props |-> props, exprs |-> exprs]
    /\ kb0' = props
    /\ lastWrites' = <<>>
    /\ UNCHANGED <<props, exprs, vec, i, j, e, origin, nDerives>>

\* the body of the phase 1 loop for one entry
Phase1Body(cur) ==
    IF props[cur].relation = "IMPLIES"
    THEN LET mp == applyModusPonens(cur, EngineState(props))
             mt == applyModusTollens(cur, mp)
         IN [mt EXCEPT !.ret = mp.ret \/ mt.ret]
    ELSE EngineState(props)

\* phase 1, one entry of the map: Modus Ponens, then Modus Tollens
ModusStep ==
    /\ UNCHANGED evalVars
    /\ traced' = NoTrace
    /\ pc = "phase1"
    /\ todo # <<>>
    /\ LET cur == Head(todo)
           st == Phase1Body(cur)
       IN /\ Commit(st)
          /\ \E ord \in OrdersAfter(st.ps) :
               /\ order' = ord
               /\ todo' = SuffixAfter(ord, cur)
    /\ UNCHANGED <<pc, vec, i, j, e>>

\* phase 2 begins: the implications vector is filled
CollectImplications ==
    /\ UNCHANGED evalVars
    /\ traced' = NoTrace
    /\ pc = "phase1"
    /\ todo = <<>>
    /\ LET v == Collect(order, props, "IMPLIES")
           first == NextPairHS(1, 0, Len(v))
       IN /\ vec' = v
          /\ i' = first[1]
          /\ j' = first[2]
    /\ pc' = "phase2"
    /\ lastWrites' = <<>>
    /\ UNCHANGED <<props, exprs, order, todo, e, changesMade, passStart, kb0,
                   origin, nDerives>>

\* phase 2, one ordered pair of implications
HypotheticalStep ==
    /\ UNCHANGED evalVars
    /\ traced' = NoTrace
    /\ pc = "phase2"
    /\ i <= Len(vec)
    /\ LET st == applyHypotheticalSyllogism(vec[i], vec[j], EngineState(props))
           next == NextPairHS(i, j, Len(vec))
       IN /\ Commit(st)
          /\ order' \in OrdersAfter(st.ps)
          /\ i' = next[1]
          /\ j' = next[2]
    /\ UNCHANGED <<pc, todo, vec, e>>

\* phase 3 begins
BeginDisjunctive ==
    /\ UNCHANGED evalVars
    /\ traced' = NoTrace
    /\ pc = "phase2"
    /\ i > Len(vec)
    /\ pc' = "phase3"
    /\ todo' = order
    /\ vec' = <<>>
    /\ i' = 1
    /\ j' = 1
    /\ lastWrites' = <<>>
    /\ UNCHANGED <<props, exprs, order, e, changesMade, passStart, kb0, origin, nDerives>>

\* the body of the phase 3 loop for one entry
Phase3Body(cur) ==
    IF props[cur].relation = "OR"
    THEN applyDisjunctiveSyllogism(cur, EngineState(props))
    ELSE EngineState(props)

\* phase 3, one entry of the map
DisjunctiveStep ==
    /\ UNCHANGED evalVars
    /\ traced' = NoTrace
    /\ pc = "phase3"
    /\ todo # <<>>
    /\ LET cur == Head(todo)
           st == Phase3Body(cur)
       IN /\ Commit(st)
          /\ \E ord \in OrdersAfter(st.ps) :
               /\ order' = ord
               /\ todo' = SuffixAfter(ord, cur)
    /\ UNCHANGED <<pc, vec, i, j, e>>

\* phase 4 begins: the disjunctions vector is filled
CollectDisjunctions ==
    /\ UNCHANGED evalVars
    /\ traced' = NoTrace
    /\ pc = "phase3"
    /\ todo = <<>>
    /\ vec' = Collect(order, props, "OR")
    /\ i' = 1
    /\ j' = 2
    /\ pc' = "phase4"
    /\ lastWrites' = <<>>
    /\ UNCHANGED <<props, exprs, order, todo, e, changesMade, passStart, kb0,
                   origin, nDerives>>

\* phase 4, one unordered pair of disjunctions
ResolutionStep ==
    /\ UNCHANGED evalVars
    /\ traced' = NoTrace
    /\ pc = "phase4"
    /\ j <= Len(vec)
    /\ LET st == applyResolution(vec[i], vec[j], EngineState(props))
           next == NextPairRes(i, j, Len(vec))
       IN /\ Commit(st)
          /\ order' \in OrdersAfter(st.ps)
          /\ i' = next[1]
          /\ j' = next[2]
    /\ UNCHANGED <<pc, todo, vec, e>>

\* phase 5 begins
BeginExpressions ==
    /\ UNCHANGED evalVars
    /\ traced' = NoTrace
    /\ pc = "phase4"
    /\ j > Len(vec)
    /\ pc' = "phase5"
    /\ vec' = <<>>
    /\ i' = 1
    /\ j' = 1
    /\ e' = 1
    /\ lastWrites' = <<>>
    /\ UNCHANGED <<props, exprs, order, todo, changesMade, passStart, kb0, origin, nDerives>>

\* phase 5, one expression whose evaluation returns a value
ExpressionStep ==
    /\ UNCHANGED evalVars
    /\ traced' = NoTrace
    /\ pc = "phase5"
    /\ e <= Len(exprs)
    /\ LET r == evaluate(exprs[e])
           subject == exprs[e].prefix
       IN /\ r.value # "ERR"
          /\ exprs' = [exprs EXCEPT ![e] = r.expr]
          /\ LET adopt == IF findProposition(subject, props)
                          THEN ScopeUpdate(props[subject].proposition_scope,
                                           props[subject].truth_value, r.value)
                          ELSE "KEEP"
                 st == IF adopt = "KEEP" THEN EngineState(props)
                       ELSE AssignInto(EngineState(props), subject, adopt, "expr")
             IN /\ props' = st.ps
                /\ lastWrites' = st.ws
                /\ origin' = ApplyWrites(origin, st.ws, 1)
                /\ changesMade' = (changesMade \/ st.ret)
    /\ e' = e + 1
    /\ UNCHANGED <<pc, order, todo, vec, i, j, passStart, kb0, nDerives>>

\* phase 5, one expression whose evaluation throws: deduceAll is left by the
\* exception
ExpressionThrows ==
    /\ UNCHANGED evalVars
    /\ traced' = NoTrace
    /\ pc = "phase5"
    /\ e <= Len(exprs)
    /\ evaluate(exprs[e]).value = "ERR"
    /\ pc' = "threw"
    /\ lastWrites' = <<>>
    /\ UNCHANGED <<props, exprs, order, todo, vec, i, j, e, changesMade, passStart,
                   kb0, origin, nDerives>>

\* the loop test of a plain "while (false)": one pass, then the return
LoopTestOnce ==
    /\ UNCHANGED evalVars
    /\ traced' = NoTrace
    /\ pc = "phase5"
    /\ e > Len(exprs)
    /\ pc' = "done"
    /\ changesMade' = FALSE
    /\ e' = 1
    /\ lastWrites' = <<>>
    /\ UNCHANGED <<props, exprs, order, todo, vec, i, j, kb0, origin, nDerives, passStart>>

\* "while (changesMade)": another pass, or the return
LoopTest ==
    /\ UNCHANGED evalVars
    /\ traced' = NoTrace
    /\ pc = "phase5"
    /\ e > Len(exprs)
    /\ IF changesMade
       THEN /\ pc' = "phase1"
            /\ todo' = order
            /\ passStart' = [props |-> props, exprs |-> exprs]
       ELSE /\ pc' = "done"
            /\ UNCHANGED <<todo, passStart>>
    /\ changesMade' = FALSE
    /\ e' = 1
    /\ lastWrites' = <<>>
    /\ UNCHANGED <<props, exprs, order, vec, i, j, kb0, origin, nDerives>>

EngineStep ==
    \/ ModusStep
    \/ CollectImplications
    \/ HypotheticalStep
    \/ BeginDisjunctive
    \/ DisjunctiveStep
    \/ CollectDisjunctions
    \/ ResolutionStep
    \/ BeginExpressions
    \/ ExpressionStep
    \/ ExpressionThrows
    \/ LoopTest

\* Ratiocinator::traceInference called on the knowledge base deduce has left
TraceInference(name) ==
    /\ pc = "done"
    /\ traced' = [name |-> name, steps |-> traceInference(props, name)]
    /\ UNCHANGED <<props, exprs, pc, order, todo, vec, i, j, e, changesMade, passStart,
                   kb0, lastWrites, origin, nDerives>>
    /\ UNCHANGED evalVars

Next ==
    \/ \E name \in TraceNames : TraceInference(name)
    \/ \E shape \in RuleShapes : SetProposition(shape)
    \/ \E name \in FactNames, value \in FactValues : SetPropositionTruthValue(name, value)
    \/ \E name \in DerivedNames, value \in FactValues :
         UpdatePropositionTruthValue(name, value, CallerProvenance)
    \/ \E name \in ExprTargets, scope \in Quantifier : SetScope(name, scope)
    \/ \E target \in ExprTargets, tokens \in ExprStreams : AddExpression(target, tokens)
    \/ Deduce
    \/ EngineStep

Spec == Init /\ [][Next]_vars

----------------------------------------------------------------------------
(* An Expression built token by token from source Propositions and          *)
(* evaluated by its caller, as the Expression tests do                      *)

\* calls of evaluate made on one expression
MaxEvals == 2

\* source Propositions that hold another value than the expression captured
MaxChanged == 1

\* the Propositions the operands are taken from
SourceNames == {"A", "B", "C"}

BinaryOperators == {"AND", "OR", "IMPLIES", "EQUIVALENT"}

\* the sequences built: well-formed ones, and ones evaluateTokenStream
\* cannot reduce to one value
WellFormedKinds ==
    {"empty", "single", "binary", "chain", "groupRight", "groupLeft", "notNot",
     "notFirst", "notSecond", "notGroup", "distributed"}

MalformedKinds == {"missingRight", "missingLeft", "operatorOnly", "twoOperands", "threeValues"}

Forms ==
    {[kind |-> k, op1 |-> "NONE", op2 |-> "NONE"] :
        k \in {"empty", "single", "notNot", "distributed", "twoOperands"}}
    \cup {[kind |-> k, op1 |-> o, op2 |-> "NONE"] :
            k \in {"binary", "notFirst", "notSecond", "notGroup", "missingRight",
                   "missingLeft", "operatorOnly", "threeValues"},
            o \in BinaryOperators}
    \cup {[kind |-> k, op1 |-> o1, op2 |-> o2] :
            k \in {"chain", "groupRight", "groupLeft"},
            o1 \in BinaryOperators, o2 \in BinaryOperators}

\* the calls the caller makes, in order: a source name stands for
\* addToken(proposition), anything else for addToken(operator)
InfixOf(f) ==
    CASE f.kind = "empty" -> <<>>
      [] f.kind = "single" -> <<"A">>
      [] f.kind = "binary" -> <<"A", f.op1, "B">>
      [] f.kind = "chain" -> <<"A", f.op1, "B", f.op2, "C">>
      [] f.kind = "groupRight" -> <<"A", f.op1, "LPAREN", "B", f.op2, "C", "RPAREN">>
      [] f.kind = "groupLeft" -> <<"LPAREN", "A", f.op1, "B", "RPAREN", f.op2, "C">>
      [] f.kind = "notNot" -> <<"NOT", "NOT", "A">>
      [] f.kind = "notFirst" -> <<"NOT", "A", f.op1, "B">>
      [] f.kind = "notSecond" -> <<"A", f.op1, "NOT", "B">>
      [] f.kind = "notGroup" -> <<"NOT", "LPAREN", "A", f.op1, "B", "RPAREN">>
      [] f.kind = "distributed" ->
           <<"LPAREN", "A", "AND", "B", "RPAREN", "OR", "LPAREN", "A", "AND", "C", "RPAREN">>
      [] f.kind = "missingRight" -> <<"A", f.op1>>
      [] f.kind = "missingLeft" -> <<f.op1, "B">>
      [] f.kind = "operatorOnly" -> <<f.op1>>
      [] f.kind = "twoOperands" -> <<"A", "B">>
      [] f.kind = "threeValues" -> <<"A", f.op1, "B", "C">>

\* the source Propositions a sequence takes operands from
SourcesOf(infix) == {infix[k] : k \in 1..Len(infix)} \cap SourceNames

\* a default-constructed Expression, switched to the token stream by its
\* first addToken; the engine is not in use
EvalInit ==
    /\ EngineInit
    /\ form \in Forms
    /\ plan = InfixOf(form)
    /\ operands \in [SourcesOf(InfixOf(form)) -> Tripartite]
    /\ built = DefaultExpression
    /\ results = <<>>
    /\ caller = NoCaller

\* the expression holds every token of the sequence
Built == Len(built.tokens) = Len(plan)

\* Expression::addToken(const Proposition&): the token copies the Proposition
AddOperandToken ==
    /\ ~Built
    /\ LET t == plan[Len(built.tokens) + 1]
       IN /\ t \in SourceNames
          /\ built' = [built EXCEPT !.tokens = Append(@, OperandToken(operands[t])),
                                    !.useTokenStream = TRUE]
    /\ UNCHANGED <<plan, form, operands, results, caller>>
    /\ UNCHANGED engineVars

\* Expression::addToken(LogicalOperator), openParen, closeParen
AddOperatorToken ==
    /\ ~Built
    /\ LET t == plan[Len(built.tokens) + 1]
       IN /\ t \notin SourceNames
          /\ built' = [built EXCEPT !.tokens = Append(@, OperatorToken(t)),
                                    !.useTokenStream = TRUE]
    /\ UNCHANGED <<plan, form, operands, results, caller>>
    /\ UNCHANGED engineVars

\* the sequence as addToken would capture it now
TokensNow ==
    [k \in 1..Len(plan) |->
        IF plan[k] \in SourceNames THEN OperandToken(operands[plan[k]])
        ELSE OperatorToken(plan[k])]

\* the value the built expression captured from a source
CapturedOf(name) == built.tokens[CHOOSE k \in 1..Len(plan) : plan[k] = name].value

\* the sources that would hold another value than the one captured
ChangedSources(values) == {n \in DOMAIN values : values[n] # CapturedOf(n)}

\* a token that refers to its source Proposition instead of copying it, under
\* an evaluate that keeps no cached value
SetSourceThroughTokens(name, value) ==
    /\ Built
    /\ name \in DOMAIN operands
    /\ operands[name] # value
    /\ Cardinality(ChangedSources([operands EXCEPT ![name] = value])) <= MaxChanged
    /\ operands' = [operands EXCEPT ![name] = value]
    /\ built' = [built EXCEPT !.isEvaluated = FALSE,
                              !.tokens = [k \in 1..Len(plan) |->
                                  IF plan[k] = name THEN OperandToken(value)
                                  ELSE built.tokens[k]]]
    /\ UNCHANGED <<plan, form, results, caller>>
    /\ UNCHANGED engineVars

\* Proposition::setTruthValue on a source Proposition, after the expression
\* was built from it
SetSourceTruthValue(name, value) ==
    /\ Built
    /\ name \in DOMAIN operands
    /\ operands[name] # value
    /\ Cardinality(ChangedSources([operands EXCEPT ![name] = value])) <= MaxChanged
    /\ operands' = [operands EXCEPT ![name] = value]
    /\ UNCHANGED <<built, plan, form, results, caller>>
    /\ UNCHANGED engineVars

\* the value an expression built at this moment from the same sources has
RebuiltValue == IF plan = <<>> THEN tUNKNOWN ELSE evaluateTokenStream(TokensNow)

\* Expression::evaluate called on the built expression; results records the
\* value returned ("ERR" for an exception) and whether an expression built at
\* this moment from the same sources would have given another one
Evaluate ==
    /\ Built
    /\ Len(results) < MaxEvals
    /\ LET r == evaluate(built)
       IN /\ built' = r.expr
          /\ results' = Append(results,
                               [value |-> r.value, stale |-> r.value # RebuiltValue])
    /\ UNCHANGED <<plan, form, operands, caller>>
    /\ UNCHANGED engineVars

EvalNext ==
    \/ AddOperandToken
    \/ AddOperatorToken
    \/ \E name \in SourceNames, value \in Tripartite : SetSourceTruthValue(name, value)
    \/ Evaluate

EvalSpec == EvalInit /\ [][EvalNext]_vars

----------------------------------------------------------------------------
(* An Expression built with either API, evaluated at any moment, extended   *)
(* and evaluated again                                                      *)

\* sequences without parentheses
BuildKinds ==
    {"empty", "single", "binary", "chain", "notNot", "notFirst", "notSecond",
     "missingRight"}

BuildForms == {f \in Forms : f.kind \in BuildKinds}

BuildInit ==
    /\ EngineInit
    /\ form \in BuildForms
    /\ plan = InfixOf(form)
    /\ operands \in [SourcesOf(InfixOf(form)) -> Tripartite]
    /\ built = DefaultExpression
    /\ results = <<>>
    /\ caller = NoCaller

\* the calls of addOperand and addOperator made so far
LegacyCalls == Len(built.operands) + Len(built.operators)

\* Expression::addOperand: the Proposition is copied into operands
AddOperand ==
    /\ ~built.useTokenStream
    /\ LegacyCalls < Len(plan)
    /\ LET t == plan[LegacyCalls + 1]
       IN /\ t \in SourceNames
          /\ built' = [built EXCEPT !.operands = Append(@, operands[t])]
    /\ UNCHANGED <<plan, form, operands, results, caller>>
    /\ UNCHANGED engineVars

\* Expression::addOperator
AddOperator ==
    /\ ~built.useTokenStream
    /\ LegacyCalls < Len(plan)
    /\ LET t == plan[LegacyCalls + 1]
       IN /\ t \notin SourceNames
          /\ built' = [built EXCEPT !.operators = Append(@, t)]
    /\ UNCHANGED <<plan, form, operands, results, caller>>
    /\ UNCHANGED engineVars

\* the whole sequence was added with addOperand and addOperator alone
LegacyBuilt == ~built.useTokenStream /\ LegacyCalls = Len(plan)

\* the value evaluate computes from what the expression holds now
ContentsValue == evaluate([built EXCEPT !.isEvaluated = FALSE]).value

\* Expression::evaluate called at any moment; results records the value
\* returned, whether the whole sequence had been added with the legacy API,
\* whether a cached value was returned, and whether the value differs from
\* the value of the contents
EvaluateContents ==
    /\ Len(results) < MaxEvals
    /\ LET r == evaluate(built)
       IN /\ built' = r.expr
          /\ results' = Append(results,
                               [value |-> r.value,
                                legacy |-> LegacyBuilt,
                                cached |-> built.isEvaluated,
                                stale |-> r.value # ContentsValue])
    /\ UNCHANGED <<plan, form, operands, caller>>
    /\ UNCHANGED engineVars

BuildNext ==
    \/ AddOperand
    \/ AddOperator
    \/ AddOperandToken
    \/ AddOperatorToken
    \/ EvaluateContents

BuildSpec == BuildInit /\ [][BuildNext]_vars


----------------------------------------------------------------------------
(* traceInference over provenance graphs of any shape: the knowledge base   *)
(* holds plain propositions whose provenance callers have passed to         *)
(* updatePropositionTruthValue, and deduce has found nothing to do          *)

\* premises of one provenance record
MaxPremises == 2

\* the propositions of the graph
GraphNames == {nP, nQ, nR}

RECURSIVE SeqsUpTo(_, _)
SeqsUpTo(S, n) ==
    IF n = 0 THEN {<<>>}
    ELSE LET shorter == SeqsUpTo(S, n - 1)
         IN shorter \cup {Append(q, x) : q \in {t \in shorter : Len(t) = n - 1}, x \in S}

\* a proposition asserted TRUE, left an axiom or given a provenance by
\* updatePropositionTruthValue
GraphNodes ==
    {setTruthValue(DefaultProposition, tTRUE)}
    \cup {setTruthValueProv(DefaultProposition, tTRUE,
                            InferenceProvenance("DirectAssertion", prem)) :
            prem \in SeqsUpTo(GraphNames, MaxPremises) \ {<<>>}}

TraceInit ==
    /\ \E present \in SUBSET GraphNames : props \in [present -> GraphNodes]
    /\ exprs = <<>>
    /\ pc = "done"
    /\ order = <<>>
    /\ todo = <<>>
    /\ vec = <<>>
    /\ i = 1
    /\ j = 1
    /\ e = 1
    /\ changesMade = FALSE
    /\ passStart = [props |-> props, exprs |-> <<>>]
    /\ kb0 = props
    /\ lastWrites = <<>>
    /\ origin = [n \in DOMAIN props |-> IF props[n].provenance_ = <<>> THEN "assert"
                                        ELSE "derive"]
    /\ nDerives = 0
    /\ traced = NoTrace
    /\ NoBuild

TraceNext == \E name \in TraceNames : TraceInference(name)

TraceSpec == TraceInit /\ [][TraceNext]_vars


----------------------------------------------------------------------------
(* A caller that adds, deduces, adds more and deduces again, beside a       *)
(* second Ratiocinator that is given the same additions and no early deduce *)

\* calls of deduce the caller makes
MaxDeduces == 2

\* Ratiocinator::addProposition on one map: only a name without an entry is
\* added
addProposition(ps, name, prop) ==
    IF name \in DOMAIN ps THEN ps ELSE (name :> prop) @@ ps

\* Ratiocinator::addProposition, called on both
AddProposition(shape) ==
    /\ pc = "idle"
    /\ shape.key \notin DOMAIN caller.batch
    /\ Cardinality(DOMAIN caller.batch) < MaxKB
    /\ props' = addProposition(props, shape.key, shape.prop)
    /\ caller' = [caller EXCEPT !.batch = addProposition(@, shape.key, shape.prop)]
    /\ origin' = IF shape.key \in DOMAIN props THEN origin
                 ELSE (shape.key :> "none") @@ origin
    /\ lastWrites' = <<>>
    /\ traced' = NoTrace
    /\ UNCHANGED <<exprs, nDerives, built, plan, form, operands, results>>
    /\ EngineIdle

\* Ratiocinator::setPropositionTruthValue, called on both, for a name the
\* caller has given no value yet
AddFact(name, value) ==
    /\ pc = "idle"
    /\ name \in DOMAIN caller.batch => caller.batch[name].truth_value = tUNKNOWN
    /\ name \notin DOMAIN caller.batch => Cardinality(DOMAIN caller.batch) < MaxKB
    /\ LET st == AssignInto(EngineState(props), name, value, "assert")
           twin == AssignInto(EngineState(caller.batch), name, value, "assert")
       IN /\ props' = st.ps
          /\ lastWrites' = st.ws
          /\ origin' = ApplyWrites(origin, st.ws, 1)
          /\ caller' = [caller EXCEPT !.batch = twin.ps]
    /\ traced' = NoTrace
    /\ UNCHANGED <<exprs, nDerives, built, plan, form, operands, results>>
    /\ EngineIdle

\* Ratiocinator::deduce has returned and the caller goes on
DeduceReturns ==
    /\ pc = "done"
    /\ caller.returned + 1 < MaxDeduces
    /\ pc' = "idle"
    /\ caller' = [caller EXCEPT !.returned = @ + 1]
    /\ lastWrites' = <<>>
    /\ traced' = NoTrace
    /\ UNCHANGED <<props, exprs, order, todo, vec, i, j, e, changesMade, passStart,
                   kb0, origin, nDerives, built, plan, form, operands, results>>

IncrementalNext ==
    \/ \E shape \in RuleShapes : AddProposition(shape)
    \/ \E name \in FactNames, value \in FactValues : AddFact(name, value)
    \/ Deduce
    \/ ModusStep
    \/ CollectImplications
    \/ HypotheticalStep
    \/ BeginDisjunctive
    \/ DisjunctiveStep
    \/ CollectDisjunctions
    \/ ResolutionStep
    \/ BeginExpressions
    \/ LoopTest
    \/ DeduceReturns

IncrementalSpec == Init /\ [][IncrementalNext]_vars

----------------------------------------------------------------------------
(* Termination of deduceAll *)

\* A pass at its end that asks for another pass although propositions and
\* expressions are exactly what they were when it began.  No entry was
\* inserted, so the map hands out the same order, and the next pass, a
\* function of these alone, ends here again: the loop never exits.
PassRecurs ==
    /\ pc = "phase5"
    /\ e > Len(exprs)
    /\ changesMade
    /\ props = passStart.props
    /\ exprs = passStart.exprs

\* C1: every call of deduceAll terminates: after finitely many passes a pass
\* makes zero changes and the call returns.  In finite-run form: no run of
\* deduceAll reaches a pass that repeats forever.
DeduceAllTerminates == ~PassRecurs

\* the pass at its end, with every truth value as it was when the pass began
PassChangedNothing ==
    /\ pc = "phase5"
    /\ e > Len(exprs)
    /\ TruthMap(props) = TruthMap(passStart.props)

\* C2: a pass that leaves every proposition's truth value exactly as it was at
\* the start of that pass is the last pass.
ZeroChangePassIsLast == [][PassChangedNothing => pc' = "done"]_vars

----------------------------------------------------------------------------
(* Conflicts and provenance *)

\* C3: every write of a truth value (direct assertion, derive with provenance,
\* update inside deduceAll, expression-driven updates included) appends a
\* Conflict exactly when the value replaced is not UNKNOWN and differs from the
\* incoming value.
ConflictIffDefiniteValueReplaced ==
    \A k \in 1..Len(lastWrites) :
        lastWrites[k].appended <=>
            (lastWrites[k].old # tUNKNOWN /\ lastWrites[k].old # lastWrites[k].new)

\* C4: a proposition has a provenance record exactly when its current truth
\* value was set by derive or by an update made inside deduceAll, and not by a
\* direct assertion.
ProvenanceIffDerived ==
    \A n \in DOMAIN props :
        (props[n].provenance_ # <<>>) <=> (origin[n] \in {"derive", "rule", "expr"})

----------------------------------------------------------------------------
(* The fixed point reached *)

\* the four (literal, other literal, literal, other literal) combinations
\* Resolution tries for two disjunctions, in the order it tries them
LiteralPairs(ps, d1, d2) ==
    << <<ps[d1].antecedent, ps[d1].consequent, ps[d2].antecedent, ps[d2].consequent>>,
       <<ps[d1].antecedent, ps[d1].consequent, ps[d2].consequent, ps[d2].antecedent>>,
       <<ps[d1].consequent, ps[d1].antecedent, ps[d2].antecedent, ps[d2].consequent>>,
       <<ps[d1].consequent, ps[d1].antecedent, ps[d2].consequent, ps[d2].antecedent>> >>

\* a name without its leading "~" or "!", and whether it has one
Stripped(name) ==
    IF name # <<>> /\ name[1] \in {"~", "!"} THEN SubSeq(name, 2, Len(name)) ELSE name
Negated(name) == name # <<>> /\ name[1] \in {"~", "!"}

\* complementary literals: same base name, opposite polarity
OppositeLiterals(a, b) == Stripped(a) = Stripped(b) /\ Negated(a) # Negated(b)

FixedPoint(ps) ==
    /\ \A k \in DOMAIN ps :
         ps[k].relation = "IMPLIES" =>
           LET A == TruthOf(ps[k].antecedent, ps)
               C == TruthOf(ps[k].consequent, ps)
           IN (A = tTRUE => C = tTRUE) /\ (C = tFALSE => A = tFALSE)
    /\ \A k \in DOMAIN ps :
         ps[k].relation = "OR" =>
           LET L == TruthOf(ps[k].antecedent, ps)
               R == TruthOf(ps[k].consequent, ps)
           IN (L = tFALSE => R = tTRUE) /\ (R = tFALSE => L = tTRUE)
    /\ \A k1, k2 \in DOMAIN ps :
         (/\ k1 # k2
          /\ ps[k1].relation = "IMPLIES"
          /\ ps[k2].relation = "IMPLIES"
          /\ ps[k1].consequent = ps[k2].antecedent) =>
           LET A == TruthOf(ps[k1].antecedent, ps)
               C == TruthOf(ps[k2].consequent, ps)
           IN ~(A = tTRUE /\ C # tTRUE) /\ ~(C = tFALSE /\ A # tFALSE)
    /\ \A d1, d2 \in DOMAIN ps :
         (d1 # d2 /\ ps[d1].relation = "OR" /\ ps[d2].relation = "OR") =>
           \A k \in 1..4 :
             LET c == LiteralPairs(ps, d1, d2)[k]
                 o1 == TruthOf(c[2], ps)
                 o2 == TruthOf(c[4], ps)
             IN OppositeLiterals(c[1], c[3]) =>
                  ~(o1 = tFALSE /\ o2 # tTRUE) /\ ~(o2 = tFALSE /\ o1 # tTRUE)

\* C5: when deduceAll returns, the knowledge base is a fixed point of the
\* rules: no guard of Modus Ponens, Modus Tollens, Disjunctive Syllogism,
\* Hypothetical Syllogism or Resolution is satisfied.
FixedPointAtReturn == pc = "done" => FixedPoint(props)

\* deduceAll has returned after an implication with a TRUE antecedent made
\* its consequent TRUE
FixedPointAfterWork ==
    /\ pc = "done"
    /\ \E k \in DOMAIN props :
         /\ props[k].relation = "IMPLIES"
         /\ TruthOf(props[k].antecedent, props) = tTRUE
         /\ TruthOf(props[k].consequent, kb0) # tTRUE

\* key holds the implication a -> c, its value UNKNOWN
IsLink(kb, key, a, c) ==
    /\ key \in DOMAIN kb
    /\ kb[key].relation = "IMPLIES"
    /\ kb[key].antecedent = a
    /\ kb[key].consequent = c
    /\ kb[key].truth_value = tUNKNOWN

\* P TRUE heads a chain P -> Q, or P -> Q -> R, and the knowledge base holds
\* nothing else
IsChain(kb) ==
    /\ nP \in DOMAIN kb
    /\ kb[nP].relation = "NONE"
    /\ kb[nP].truth_value = tTRUE
    /\ IsLink(kb, nQ, nP, nQ)
    /\ DOMAIN kb \subseteq {nP, nQ, nR}
    /\ nR \in DOMAIN kb => IsLink(kb, nR, nQ, nR)

\* C6: with P TRUE and the implications P -> Q and Q -> R, Q and R UNKNOWN,
\* both Q and R are TRUE after deduceAll whatever the iteration order; so is
\* every consequent of a chain of another length whose head is TRUE.
ChainDerived ==
    (pc = "done" /\ IsChain(kb0)) =>
        \A n \in DOMAIN kb0 \ {nP} : props[n].truth_value = tTRUE

\* deduceAll has returned on the chain P -> Q -> R, having visited Q -> R
\* before P -> Q
ChainRunBackwards ==
    /\ pc = "done"
    /\ IsChain(kb0)
    /\ order = <<nR, nQ>>

----------------------------------------------------------------------------
(* Provenance written by the rules *)

\* what Modus Ponens and Modus Tollens wrote in the last step of phase 1,
\* the implication being named by name(key)
ModusProvenance(w, named) ==
    LET key == w.via[1]
        impl == props[key]
    IN /\ w.new = tTRUE =>
            /\ w.name = impl.consequent
            /\ w.prov = <<InferenceProvenance("ModusPonens",
                                              <<impl.antecedent, named[key]>>)>>
       /\ w.new = tFALSE =>
            /\ w.name = impl.antecedent
            /\ w.prov = <<InferenceProvenance("ModusTollens",
                                              <<impl.consequent, named[key]>>)>>

\* C7 as stated: a value derived by Modus Ponens carries rule "ModusPonens"
\* and premises <<antecedent, key of the implication in the knowledge base>>,
\* one derived by Modus Tollens rule "ModusTollens" and premises
\* <<consequent, key of the implication>>.
ModusPremisesNameKey ==
    pc = "phase1" =>
        \A k \in 1..Len(lastWrites) :
            ModusProvenance(lastWrites[k], [n \in DOMAIN props |-> n])

\* C7: a value derived by Modus Ponens carries rule "ModusPonens" and premises
\* <<antecedent, prefix of the implication>>, one derived by Modus Tollens
\* rule "ModusTollens" and premises <<consequent, prefix of the implication>>;
\* the prefix is the name the implication itself carries, not its key.
ModusPremisesNamePrefix ==
    pc = "phase1" =>
        \A k \in 1..Len(lastWrites) :
            ModusProvenance(lastWrites[k], [n \in DOMAIN props |-> props[n].prefix])

\* Modus Ponens has just derived a consequent from an implication whose
\* prefix is not its key
ModusPonensFired ==
    /\ pc = "phase1"
    /\ \E k \in 1..Len(lastWrites) :
         /\ lastWrites[k].new = tTRUE
         /\ props[lastWrites[k].via[1]].prefix # lastWrites[k].via[1]

----------------------------------------------------------------------------
(* One application of a rule to the pair or entry it is handed *)

\* every name a proposition of the bounded knowledge bases may carry
Universe == {nP, nQ, nR, nNotP, nD1, nD2}

\* the truth value of every name, a missing one reading UNKNOWN
TruthOn(ps) == [n \in Universe |-> TruthOf(n, ps)]

\* phase 2 stands before a pair of implications that share the middle term
HSApplied ==
    /\ pc = "phase2"
    /\ i <= Len(vec)
    /\ props[vec[i]].consequent = props[vec[j]].antecedent

\* the truth values Hypothetical Syllogism leaves when each of its two guards
\* is judged on the values current when it is tested
HSExpected(tm, A, C) ==
    LET t1 == IF tm[A] = tTRUE /\ tm[C] # tTRUE THEN [tm EXCEPT ![C] = tTRUE] ELSE tm
    IN IF t1[C] = tFALSE /\ t1[A] # tFALSE THEN [t1 EXCEPT ![A] = tFALSE] ELSE t1

\* C8: an application of Hypothetical Syllogism to (A -> B, B -> C) makes C
\* TRUE, with rule "HypotheticalSyllogism" and premises <<A, name of the
\* first rule, name of the second rule>>, if A is TRUE and C is not TRUE;
\* makes A FALSE if C is FALSE and A is not FALSE; and does nothing else, each
\* guard being judged on the truth values current when it is tested.  The
\* name of a rule is read as its prefix.
HSAppliesOnCurrentValues ==
    [][HSApplied =>
         LET A == props[vec[i]].antecedent
             C == props[vec[j]].consequent
             tm == TruthOn(props)
         IN /\ TruthOn(props') = HSExpected(tm, A, C)
            /\ (tm[A] = tTRUE /\ tm[C] # tTRUE) =>
                 props'[C].provenance_ =
                   <<InferenceProvenance("HypotheticalSyllogism",
                       <<A, props[vec[i]].prefix, props[vec[j]].prefix>>)>>]_vars

\* phase 3 stands before a disjunction
DSApplied ==
    /\ pc = "phase3"
    /\ todo # <<>>
    /\ props[Head(todo)].relation = "OR"

\* the truth values Disjunctive Syllogism leaves when each of its two guards
\* is judged on the values current when it is tested
DSExpected(tm, L, R) ==
    LET t1 == IF tm[L] = tFALSE /\ tm[R] # tTRUE THEN [tm EXCEPT ![R] = tTRUE] ELSE tm
    IN IF t1[R] = tFALSE /\ t1[L] # tTRUE THEN [t1 EXCEPT ![L] = tTRUE] ELSE t1

\* C9: an application of Disjunctive Syllogism to the disjunction (L, R) makes
\* R TRUE if L is FALSE and R is not TRUE, makes L TRUE if R is FALSE and L is
\* not TRUE, and does nothing else; the value derived carries rule
\* "DisjunctiveSyllogism" and premises <<the false disjunct, name of the
\* disjunction>>; each guard is judged on the truth values current when it is
\* tested.
DSAppliesOnCurrentValues ==
    [][DSApplied =>
         LET d == props[Head(todo)]
             L == d.antecedent
             R == d.consequent
             tm == TruthOn(props)
             want == DSExpected(tm, L, R)
         IN /\ TruthOn(props') = want
            /\ want[R] # tm[R] =>
                 props'[R].provenance_ =
                   <<InferenceProvenance("DisjunctiveSyllogism", <<L, d.prefix>>)>>
            /\ want[L] # tm[L] =>
                 props'[L].provenance_ =
                   <<InferenceProvenance("DisjunctiveSyllogism", <<R, d.prefix>>)>>]_vars

\* phase 4 stands before a pair of disjunctions
ResolutionApplied ==
    /\ pc = "phase4"
    /\ j <= Len(vec)

\* the combinations of the pair at hand whose literals are complementary
ComplementaryPairs ==
    {k \in 1..4 : LET c == LiteralPairs(props, vec[i], vec[j])[k]
                  IN OppositeLiterals(c[1], c[3])}

\* what Resolution does with the combination c of complementary literals,
\* the only such combination of the pair: the first of the two guards that
\* holds when it is tested decides
ResolvedAs(c) ==
    LET other1 == c[2]
        other2 == c[4]
        o1 == TruthOf(other1, props)
        o2 == TruthOf(other2, props)
        names == <<props[vec[i]].prefix, props[vec[j]].prefix>>
    IN /\ (o1 = tFALSE /\ o2 # tTRUE) =>
            /\ TruthOn(props') = [TruthOn(props) EXCEPT ![other2] = tTRUE]
            /\ props'[other2].provenance_ =
                 <<InferenceProvenance("Resolution", names \o <<other1>>)>>
       /\ (~(o1 = tFALSE /\ o2 # tTRUE) /\ o2 = tFALSE /\ o1 # tTRUE) =>
            /\ TruthOn(props') = [TruthOn(props) EXCEPT ![other1] = tTRUE]
            /\ props'[other1].provenance_ =
                 <<InferenceProvenance("Resolution", names \o <<other2>>)>>
       /\ (~(o1 = tFALSE /\ o2 # tTRUE) /\ ~(o2 = tFALSE /\ o1 # tTRUE)) =>
            props' = props

\* C10: for a pair of disjunctions with complementary literals, if the other
\* literal of one is FALSE and the other literal of the other is not TRUE,
\* Resolution makes the latter TRUE with rule "Resolution" and premises
\* <<name of the first disjunction, name of the second, the false literal>>;
\* Resolution changes no proposition when no literals are complementary.
ResolutionOnComplementaryLiterals ==
    [][ResolutionApplied =>
         /\ ComplementaryPairs = {} => props' = props
         /\ \A k \in ComplementaryPairs :
              ComplementaryPairs = {k} =>
                ResolvedAs(LiteralPairs(props, vec[i], vec[j])[k])]_vars

\* Resolution has just made a literal TRUE
ResolutionFired ==
    /\ pc = "phase4"
    /\ lastWrites # <<>>
    /\ lastWrites[1].new = tTRUE
    /\ lastWrites[1].prov # <<>>
    /\ lastWrites[1].prov[1].ruleFired = "Resolution"

----------------------------------------------------------------------------
(* The expression-driven phase *)

\* phase 5 stands before an expression whose evaluation returns a value
ExpressionApplied ==
    /\ pc = "phase5"
    /\ e <= Len(exprs)
    /\ evaluate(exprs[e]).value # "ERR"

\* the value a target of the given scope holds after an expression with the
\* given result has been applied to it
ScopeTable(scope, current, result) ==
    CASE scope = "UNIVERSAL_AFFIRMATIVE" ->
           IF result = tTRUE /\ result # current THEN tTRUE ELSE current
      [] scope = "UNIVERSAL_NEGATIVE" ->
           IF result = tFALSE /\ result # current THEN tFALSE ELSE current
      [] scope = "PARTICULAR_AFFIRMATIVE" ->
           IF result = tTRUE THEN tTRUE ELSE current
      [] scope = "PARTICULAR_NEGATIVE" ->
           IF result = tFALSE /\ current # tTRUE THEN tFALSE ELSE current
      [] OTHER -> current

----------------------------------------------------------------------------
(* Names missing from the map *)

\* the value a name stands for: the entry's value, UNKNOWN without an entry
ValueOrUnknown(ps, n) == IF n \in DOMAIN ps THEN ps[n].truth_value ELSE tUNKNOWN

SameValues(a, b) == \A n \in Universe : ValueOrUnknown(a, n) = ValueOrUnknown(b, n)

\* the map with an UNKNOWN entry of no relation put in for every missing name
Completed(ps) ==
    [n \in Universe \cup DOMAIN ps |-> IF n \in DOMAIN ps THEN ps[n] ELSE DefaultProposition]

\* Modus Ponens, then Modus Tollens, of one entry over the map ps
ModusOn(ps, cur) == applyModusTollens(cur, applyModusPonens(cur, EngineState(ps)))

\* the rule step about to be taken computes the values it would compute with
\* every missing name present and UNKNOWN
ReadsAbsentAsUnknown ==
    /\ (pc = "phase1" /\ todo # <<>> /\ props[Head(todo)].relation = "IMPLIES")
         => SameValues(Phase1Body(Head(todo)).ps, ModusOn(Completed(props), Head(todo)).ps)
    /\ (pc = "phase2" /\ i <= Len(vec))
         => SameValues(applyHypotheticalSyllogism(vec[i], vec[j], EngineState(props)).ps,
                       applyHypotheticalSyllogism(vec[i], vec[j],
                                                  EngineState(Completed(props))).ps)
    /\ (pc = "phase3" /\ todo # <<>> /\ props[Head(todo)].relation = "OR")
         => SameValues(Phase3Body(Head(todo)).ps,
                       applyDisjunctiveSyllogism(Head(todo),
                                                 EngineState(Completed(props))).ps)
    /\ (pc = "phase4" /\ j <= Len(vec))
         => SameValues(applyResolution(vec[i], vec[j], EngineState(props)).ps,
                       applyResolution(vec[i], vec[j], EngineState(Completed(props))).ps)

\* a write of the step just taken that made its entry leaves the entry in the
\* map, holding the written value unless the same step wrote it again
WritesCreateEntry ==
    \A k \in 1..Len(lastWrites) :
       lastWrites[k].created =>
          /\ lastWrites[k].name \in DOMAIN props
          /\ (\A m \in (k + 1)..Len(lastWrites) : lastWrites[m].name # lastWrites[k].name)
               => props[lastWrites[k].name].truth_value = lastWrites[k].new

\* C12: deduceAll never raises because a name referenced by a rule or an
\* expression is missing from the propositions map: the only exception that
\* leaves it comes from an expression that cannot be evaluated, a missing name
\* is read as UNKNOWN, and a write to a missing name creates the entry holding
\* the written value.
MissingNamesAreSafe ==
    /\ pc = "threw" => evaluate(exprs[e]).value = "ERR"
    /\ Running => ReadsAbsentAsUnknown
    /\ WritesCreateEntry

\* a rule has just written to a name that had no entry
MissingNameWritten ==
    /\ Running
    /\ \E k \in 1..Len(lastWrites) : lastWrites[k].created /\ lastWrites[k].kind = "rule"

\* an expression whose target has no entry has just been passed over
MissingTargetSkipped ==
    /\ pc = "phase5"
    /\ e > 1
    /\ exprs[e - 1].prefix \notin DOMAIN props

----------------------------------------------------------------------------
(* Insertion while the map is being traversed *)

\* a range-for over the propositions map is active: phases 1 and 3
TraversalActive == pc \in {"phase1", "phase3"}

\* C13: deduceAll never inserts a new entry into the propositions map while
\* an iteration over that map is in progress: no step taken inside the
\* range-for of phase 1 or phase 3 has created an entry.
NoInsertionDuringTraversal ==
    TraversalActive => \A k \in 1..Len(lastWrites) : ~lastWrites[k].created

----------------------------------------------------------------------------
(* The evaluator: snapshots *)

\* the value of the operand values the tokens captured
CapturedValue == IF built.tokens = <<>> THEN tUNKNOWN ELSE evaluateTokenStream(built.tokens)

\* C14: the value returned by evaluate depends only on the operand truth
\* values captured when the expression was built: every call on the built
\* expression returns the value of the captured operands, the same value as
\* the first call, whatever the source propositions hold by then.
EvaluateReturnsSnapshot ==
    \A k \in 1..Len(results) :
       /\ results[k].value = results[1].value
       /\ results[k].value = CapturedValue

\* evaluate was called before and after a source changed to a value that
\* gives a freshly built expression another result
EvaluatedAfterSourceChanged ==
    /\ Len(results) = 2
    /\ ~results[1].stale
    /\ results[2].stale
    /\ results[2].value # "ERR"

----------------------------------------------------------------------------
(* The evaluator: precedence, order of application, parentheses *)

\* the truth values the operand tokens captured, in order of appearance
RECURSIVE ValuesOf(_)
ValuesOf(tokens) ==
    IF tokens = <<>> THEN <<>>
    ELSE IF Head(tokens).isOperand THEN <<Head(tokens).value>> \o ValuesOf(Tail(tokens))
    ELSE ValuesOf(Tail(tokens))

Captured == ValuesOf(built.tokens)

\* the connective an operator stands for
Connective(op, a, b) ==
    CASE op = "AND" -> TriAnd(a, b)
      [] op = "OR" -> TriOr(a, b)
      [] op = "IMPLIES" -> implies(a, b)
      [] op = "EQUIVALENT" ->
           IF implies(a, b) = tTRUE /\ implies(b, a) = tTRUE THEN tTRUE ELSE tFALSE

\* AND binds before OR, OR before IMPLIES and EQUIVALENT
Rank(op) == CASE op = "AND" -> 3 [] op = "OR" -> 2 [] OTHER -> 1

\* a op1 b op2 c: the operator that binds tighter is applied first, the left
\* one when they bind alike
ChainValue(op1, op2, a, b, c) ==
    IF Rank(op2) > Rank(op1) THEN Connective(op1, a, Connective(op2, b, c))
    ELSE Connective(op2, Connective(op1, a, b), c)

\* the first call of evaluate has returned
Evaluated == results # <<>>

\* C15: for every well-formed token stream evaluate applies AND before OR
\* before IMPLIES / EQUIVALENT, applies operators of equal precedence left to
\* right as they appear, and treats a parenthesised group as one operand.
PrecedenceAndGrouping ==
    Evaluated =>
       /\ form.kind = "binary"
            => results[1].value = Connective(form.op1, Captured[1], Captured[2])
       /\ form.kind = "chain"
            => results[1].value =
                 ChainValue(form.op1, form.op2, Captured[1], Captured[2], Captured[3])
       /\ form.kind = "groupRight"
            => results[1].value =
                 Connective(form.op1, Captured[1],
                            Connective(form.op2, Captured[2], Captured[3]))
       /\ form.kind = "groupLeft"
            => results[1].value =
                 Connective(form.op2, Connective(form.op1, Captured[1], Captured[2]),
                            Captured[3])
       /\ form.kind = "distributed"
            => results[1].value =
                 TriOr(TriAnd(Captured[1], Captured[2]), TriAnd(Captured[3], Captured[4]))

\* FALSE IMPLIES FALSE IMPLIES FALSE was evaluated from the left: FALSE, where
\* FALSE IMPLIES (FALSE IMPLIES FALSE) is TRUE
ImpliesChainFromLeft ==
    /\ Evaluated
    /\ form.kind = "chain"
    /\ form.op1 = "IMPLIES"
    /\ form.op2 = "IMPLIES"
    /\ Captured = <<tFALSE, tFALSE, tFALSE>>
    /\ results[1].value = tFALSE

----------------------------------------------------------------------------
(* The evaluator: unary NOT *)

\* C16: unary NOT applies to the operand or parenthesised group that
\* immediately follows it before any binary operator uses that operand, and
\* stacked NOTs all apply: NOT NOT A evaluates to A, NOT A op B to
\* op(NOT(A), B), A op NOT B to op(A, NOT(B)) and NOT (A op B) to
\* NOT(op(A, B)), for all three truth values.
NotBindsTightest ==
    Evaluated =>
       /\ form.kind = "notNot" => results[1].value = Captured[1]
       /\ form.kind = "notFirst"
            => results[1].value = Connective(form.op1, TriNot(Captured[1]), Captured[2])
       /\ form.kind = "notSecond"
            => results[1].value = Connective(form.op1, Captured[1], TriNot(Captured[2]))
       /\ form.kind = "notGroup"
            => results[1].value = TriNot(Connective(form.op1, Captured[1], Captured[2]))

\* NOT FALSE AND FALSE was evaluated to FALSE, where NOT (FALSE AND FALSE) is
\* TRUE
NotAppliedBeforeAnd ==
    /\ Evaluated
    /\ form.kind = "notFirst"
    /\ form.op1 = "AND"
    /\ Captured = <<tFALSE, tFALSE>>
    /\ results[1].value = tFALSE

----------------------------------------------------------------------------
(* The evaluator: empty and malformed streams *)

\* C17: evaluate returns UNKNOWN without error for an empty token stream; for
\* a malformed stream (a binary operator with fewer than two operands
\* available, or more than one value left on the stack at the end) every call
\* fails with an error instead of returning a value; a well-formed stream
\* gives a truth value.
EmptyIsUnknownMalformedFails ==
    \A k \in 1..Len(results) :
       /\ form.kind = "empty" => results[k].value = tUNKNOWN
       /\ form.kind \in MalformedKinds => results[k].value = "ERR"
       /\ form.kind \in WellFormedKinds => results[k].value \in Tripartite

\* a stream that leaves two values on the stack has failed twice
TooManyOperandsFailed ==
    /\ form.kind = "threeValues"
    /\ Len(results) = 2
    /\ results[2].value = "ERR"
    /\ ~built.isEvaluated

----------------------------------------------------------------------------
(* The evaluator: EQUIVALENT *)

\* C18: for all truth values a, b, a EQUIVALENT b is TRUE exactly when
\* IMPLIES(a, b) and IMPLIES(b, a) are both TRUE and FALSE otherwise; it is
\* never UNKNOWN, even when a or b is.
EquivalentIsTwoValued ==
    (Evaluated /\ form.kind = "binary" /\ form.op1 = "EQUIVALENT") =>
       LET a == Captured[1]
           b == Captured[2]
       IN /\ results[1].value \in {tTRUE, tFALSE}
          /\ results[1].value = tTRUE <=> (implies(a, b) = tTRUE /\ implies(b, a) = tTRUE)

\* UNKNOWN EQUIVALENT UNKNOWN was evaluated to FALSE
EquivalentOfUnknowns ==
    /\ Evaluated
    /\ form.kind = "binary"
    /\ form.op1 = "EQUIVALENT"
    /\ Captured = <<tUNKNOWN, tUNKNOWN>>
    /\ results[1].value = tFALSE

----------------------------------------------------------------------------
(* The evaluator: laws of AND and OR *)

\* x op y, x op (y op2 z), (x op y) op2 z and (x AND y) OR (x AND z) as
\* token streams
BinaryStream(x, op, y) == <<OperandToken(x), OperatorToken(op), OperandToken(y)>>

GroupRightStream(x, op1, y, op2, z) ==
    <<OperandToken(x), OperatorToken(op1), OperatorToken("LPAREN"), OperandToken(y),
      OperatorToken(op2), OperandToken(z), OperatorToken("RPAREN")>>

GroupLeftStream(x, op1, y, op2, z) ==
    <<OperatorToken("LPAREN"), OperandToken(x), OperatorToken(op1), OperandToken(y),
      OperatorToken("RPAREN"), OperatorToken(op2), OperandToken(z)>>

DistributedStream(x, y, z) ==
    <<OperatorToken("LPAREN")>> \o BinaryStream(x, "AND", y)
       \o <<OperatorToken("RPAREN"), OperatorToken("OR"), OperatorToken("LPAREN")>>
       \o BinaryStream(x, "AND", z) \o <<OperatorToken("RPAREN")>>

\* C19: for all truth values x, y, z, UNKNOWN included, expressions evaluated
\* by the evaluator satisfy commutativity and associativity of AND and of OR
\* and distributivity of AND over OR: the expression built evaluates to the
\* value of the expression on the other side of each law.
KleeneLawsHold ==
    Evaluated =>
       /\ (form.kind = "binary" /\ form.op1 \in {"AND", "OR"})
            => results[1].value =
                 evaluateTokenStream(BinaryStream(Captured[2], form.op1, Captured[1]))
       /\ (form.kind = "groupLeft" /\ form.op1 \in {"AND", "OR"} /\ form.op2 = form.op1)
            => results[1].value =
                 evaluateTokenStream(GroupRightStream(Captured[1], form.op1, Captured[2],
                                                      form.op1, Captured[3]))
       /\ (form.kind = "groupRight" /\ form.op1 \in {"AND", "OR"} /\ form.op2 = form.op1)
            => results[1].value =
                 evaluateTokenStream(GroupLeftStream(Captured[1], form.op1, Captured[2],
                                                     form.op1, Captured[3]))
       /\ (form.kind = "groupRight" /\ form.op1 = "AND" /\ form.op2 = "OR")
            => results[1].value =
                 evaluateTokenStream(DistributedStream(Captured[1], Captured[2], Captured[3]))
       /\ form.kind = "distributed"
            => results[1].value =
                 evaluateTokenStream(GroupRightStream(Captured[1], "AND", Captured[2],
                                                      "OR", Captured[4]))

\* (UNKNOWN AND TRUE) OR (UNKNOWN AND FALSE) was evaluated, to UNKNOWN
DistributedOverUnknown ==
    /\ Evaluated
    /\ form.kind = "distributed"
    /\ Captured = <<tUNKNOWN, tTRUE, tUNKNOWN, tFALSE>>
    /\ results[1].value = tUNKNOWN

----------------------------------------------------------------------------
(* Inference traces *)

\* a call of traceInference has just returned
Traced == traced # NoTrace

\* C20: the trace of a proposition that has no provenance is exactly one
\* step, with rule "Axiom", depth 0 and no premises; the trace of a name that
\* is not in the knowledge base is the empty list.
AxiomTraceIsOneStep ==
    Traced =>
       /\ traced.name \notin DOMAIN props => traced.steps = <<>>
       /\ (traced.name \in DOMAIN props /\ props[traced.name].provenance_ = <<>>)
            => /\ Len(traced.steps) = 1
               /\ traced.steps[1].proposition = traced.name
               /\ traced.steps[1].truthValue = props[traced.name].truth_value
               /\ traced.steps[1].rule = "Axiom"
               /\ traced.steps[1].depth = 0
               /\ traced.steps[1].premises = <<>>

\* an asserted proposition has been traced after deduce returned
AxiomTraced ==
    /\ Traced
    /\ pc = "done"
    /\ traced.name \in DOMAIN props
    /\ props[traced.name].provenance_ = <<>>
    /\ props[traced.name].truth_value = tTRUE
    /\ Len(traced.steps) = 1

\* a name without an entry has been traced
MissingNameTraced ==
    /\ Traced
    /\ traced.name \notin DOMAIN props
    /\ props # <<>>
    /\ traced.steps = <<>>

\* a derived proposition has been traced down to its premises
DerivationTraced ==
    /\ Traced
    /\ Len(traced.steps) >= 3

----------------------------------------------------------------------------
(* Inference traces over cyclic provenance *)

\* C21: for every provenance graph, cyclic ones included, traceInference
\* returns, emits at most one step per proposition name, and so never returns
\* more steps than the knowledge base holds propositions.
TraceVisitsEachNameOnce ==
    Traced =>
       /\ Len(traced.steps) <= Cardinality(DOMAIN props)
       /\ \A a, b \in 1..Len(traced.steps) :
             a # b => traced.steps[a].proposition # traced.steps[b].proposition
       /\ \A a \in 1..Len(traced.steps) : traced.steps[a].proposition \in DOMAIN props

\* P, whose provenance names Q, whose provenance names P, has been traced
CycleTraced ==
    /\ Traced
    /\ traced.name = nP
    /\ nP \in DOMAIN props
    /\ nQ \in DOMAIN props
    /\ props[nP].provenance_ # <<>>
    /\ props[nQ].provenance_ # <<>>
    /\ props[nP].provenance_[1].premises = <<nQ>>
    /\ props[nQ].provenance_[1].premises = <<nP>>
    /\ Len(traced.steps) = 2

----------------------------------------------------------------------------
(* Conflict lists *)

\* a step of assert (setPropositionTruthValue), derive
\* (updatePropositionTruthValue) or deduceAll
AssertDeriveOrDeduce ==
    \/ \E name \in FactNames, value \in FactValues : SetPropositionTruthValue(name, value)
    \/ \E name \in DerivedNames, value \in FactValues :
         UpdatePropositionTruthValue(name, value, CallerProvenance)
    \/ Deduce
    \/ EngineStep

\* the entry before the step; a name without an entry is the default
\* Proposition operator[] constructs
EntryBefore(n) == IF n \in DOMAIN props THEN props[n] ELSE DefaultProposition

\* the Conflicts the step has put at the end of n's list
NewConflicts(n) ==
    SubSeq(props'[n].conflicts_, Len(EntryBefore(n).conflicts_) + 1,
           Len(props'[n].conflicts_))

\* C22: across assert, derive and deduceAll steps a proposition's conflict
\* list is append-only: no entry it holds is removed, reordered or modified,
\* and a new entry records the old value and the old provenance as they were
\* before the overwrite.
ConflictsAppendOnly ==
    [][AssertDeriveOrDeduce =>
         /\ DOMAIN props \subseteq DOMAIN props'
         /\ \A n \in DOMAIN props' :
              LET before == EntryBefore(n).conflicts_
                  after == props'[n].conflicts_
                  new == NewConflicts(n)
              IN /\ Len(after) >= Len(before)
                 /\ SubSeq(after, 1, Len(before)) = before
                 /\ new # <<>> =>
                      /\ new[1].oldValue = EntryBefore(n).truth_value
                      /\ new[1].oldProvenance = value_or(EntryBefore(n).provenance_)
                 /\ \A k \in 2..Len(new) : new[k].oldValue = new[k - 1].newValue]_vars

\* a proposition holds two Conflicts, the second recorded over the value the
\* first brought in
TwoConflictsRecorded ==
    \E n \in DOMAIN props :
       /\ Len(props[n].conflicts_) = 2
       /\ props[n].conflicts_[2].oldValue = props[n].conflicts_[1].newValue
       /\ props[n].conflicts_[2].oldProvenance = props[n].conflicts_[1].newProvenance

----------------------------------------------------------------------------
(* deduceAll without expressions as a function of the map and of the order  *)
(* in which the map hands out its IMPLIES / OR entries                      *)

\* passes of the do-while loop the function follows
MaxPasses == 6

\* the map and the changesMade flag after one more rule call
After(run, st) == [ps |-> st.ps, changed |-> run.changed \/ st.ret]

\* phase 1 over the entries td
RECURSIVE RunModus(_, _)
RunModus(run, td) ==
    IF td = <<>> THEN run
    ELSE LET cur == Head(td)
             mp == applyModusPonens(cur, EngineState(run.ps))
             mt == applyModusTollens(cur, mp)
         IN RunModus(IF run.ps[cur].relation = "IMPLIES"
                     THEN After(After(run, mp), mt) ELSE run,
                     Tail(td))

\* phase 2 from the pair (a, b) of the implications vector v
RECURSIVE RunHypothetical(_, _, _, _)
RunHypothetical(run, v, a, b) ==
    IF a > Len(v) THEN run
    ELSE LET next == NextPairHS(a, b, Len(v))
         IN RunHypothetical(
               After(run, applyHypotheticalSyllogism(v[a], v[b], EngineState(run.ps))),
               v, next[1], next[2])

\* phase 3 over the entries td
RECURSIVE RunDisjunctive(_, _)
RunDisjunctive(run, td) ==
    IF td = <<>> THEN run
    ELSE LET cur == Head(td)
         IN RunDisjunctive(IF run.ps[cur].relation = "OR"
                           THEN After(run, applyDisjunctiveSyllogism(cur, EngineState(run.ps)))
                           ELSE run,
                           Tail(td))

\* phase 4 from the pair (a, b) of the disjunctions vector v
RECURSIVE RunResolution(_, _, _, _)
RunResolution(run, v, a, b) ==
    IF b > Len(v) THEN run
    ELSE LET next == NextPairRes(a, b, Len(v))
         IN RunResolution(After(run, applyResolution(v[a], v[b], EngineState(run.ps))),
                          v, next[1], next[2])

\* one pass of the do-while loop
RunPass(ps, ord) ==
    LET p1 == RunModus([ps |-> ps, changed |-> FALSE], ord)
        v2 == Collect(ord, p1.ps, "IMPLIES")
        first == NextPairHS(1, 0, Len(v2))
        p2 == RunHypothetical(p1, v2, first[1], first[2])
        p3 == RunDisjunctive(p2, ord)
    IN RunResolution(p3, Collect(ord, p3.ps, "OR"), 1, 2)

\* the map deduceAll leaves when the map keeps handing out its entries in the
\* order ord
RECURSIVE deduceAllIn(_, _, _)
deduceAllIn(ps, ord, passes) ==
    LET run == RunPass(ps, ord)
    IN IF run.changed /\ passes > 1 THEN deduceAllIn(run.ps, ord, passes - 1)
       ELSE run.ps

----------------------------------------------------------------------------
(* Iteration order *)

\* C23: the final truth value of every proposition after deduceAll does not
\* depend on the order in which the propositions map is iterated: whatever
\* order the map was iterated in, the values deduceAll has left are the
\* values it leaves under every other order of the same entries.
FinalValuesOrderIndependent ==
    (pc = "done" /\ exprs = <<>>) =>
       \A ord \in Perms(RuleKeys(kb0)) :
          SameValues(deduceAllIn(kb0, ord, MaxPasses), props)

----------------------------------------------------------------------------
(* Termination of the five rules alone *)

\* the do-while loop of deduceAll over ps under ord exits within the given
\* number of passes
RECURSIVE SettlesWithin(_, _, _)
SettlesWithin(ps, ord, passes) ==
    /\ passes > 0
    /\ LET run == RunPass(ps, ord)
       IN \/ ~run.changed
          \/ SettlesWithin(run.ps, ord, passes - 1)

\* the number of Conflict entries held by the propositions named in S
RECURSIVE ConflictCount(_, _)
ConflictCount(ps, S) ==
    IF S = {} THEN 0
    ELSE LET n == CHOOSE x \in S : TRUE
         IN Len(ps[n].conflicts_) + ConflictCount(ps, S \ {n})

\* the Conflict entries recorded since deduceAll was called
ConflictsRecorded == ConflictCount(props, DOMAIN props) - ConflictCount(kb0, DOMAIN kb0)

\* C24: with no expressions deduceAll terminates, whatever the asserted values:
\* no pass asks for another pass in the state it began in, from the map the
\* call began with the loop exits within MaxPasses passes under every order,
\* and the call records at most two Conflicts per entry of the map.
RulesAloneTerminate ==
    (exprs = <<>> /\ pc # "idle") =>
        /\ ~PassRecurs
        /\ ConflictsRecorded <= 2 * Cardinality(DOMAIN props)
        /\ pc = "done" =>
             \A ord \in Perms(RuleKeys(kb0)) : SettlesWithin(kb0, ord, MaxPasses)

\* a call without expressions over values that contradict the rules has
\* returned, having overwritten definite values
ContradictionSettled ==
    /\ pc = "done"
    /\ exprs = <<>>
    /\ ConflictsRecorded >= 2

----------------------------------------------------------------------------
(* Asserted values that are consistent with the rules *)

\* the two-valued assignment v satisfies the proposition p
Satisfies(v, p) ==
    CASE p.relation = "IMPLIES" -> v[p.antecedent] => v[p.consequent]
      [] p.relation = "OR" -> v[p.antecedent] \/ v[p.consequent]
      [] OTHER -> TRUE

\* v agrees with every definite value of ps, satisfies every IMPLIES and OR
\* proposition of ps and gives X and ~X / !X opposite values
ModelOf(v, ps) ==
    /\ \A n \in DOMAIN ps :
         /\ ps[n].truth_value = tTRUE => v[n]
         /\ ps[n].truth_value = tFALSE => ~v[n]
         /\ Satisfies(v, ps[n])
    /\ \A n \in DOMAIN v :
         (isNegatedName(n) /\ getBaseName(n) \in DOMAIN v) => v[n] # v[getBaseName(n)]

Consistent(ps) == \E v \in [Universe -> BOOLEAN] : ModelOf(v, ps)

\* the names that hold a definite value in ps
DefiniteIn(ps) == {n \in DOMAIN ps : ps[n].truth_value # tUNKNOWN}

\* C25: when the values deduceAll starts from are consistent with the rules
\* and there are no expressions, the call records no Conflict and changes no
\* value that was definite when it began.
ConsistentValuesAreKept ==
    (exprs = <<>> /\ pc # "idle" /\ Consistent(kb0)) =>
        /\ ConflictsRecorded = 0
        /\ \A n \in DefiniteIn(kb0) : props[n].truth_value = kb0[n].truth_value

\* a call over consistent asserted values has returned with a new definite
\* value beside the asserted ones
ConsistentValuesExtended ==
    /\ pc = "done"
    /\ exprs = <<>>
    /\ Consistent(kb0)
    /\ DefiniteIn(kb0) # {}
    /\ DefiniteIn(props) # DefiniteIn(kb0)

----------------------------------------------------------------------------
(* The legacy API against the token stream *)

\* the sequences of operands, binary operators and NOT that read as a formula
InfixKinds == {"single", "binary", "chain", "notNot", "notFirst", "notSecond"}

\* C26: a sequence without parentheses added with addOperand and addOperator
\* evaluates to the value the same sequence has when added with addToken, for
\* all operand truth values.
LegacyAgreesWithTokens ==
    \A k \in DOMAIN results :
       (form.kind \in InfixKinds /\ results[k].legacy /\ ~results[k].cached)
         => results[k].value = RebuiltValue

----------------------------------------------------------------------------
(* evaluate after the expression was extended *)

\* C27: evaluate returns the value of the expression's current contents, also
\* when it was called before and operands, operators or tokens were appended
\* since, without a call of reset.
EvaluateFollowsContents == \A k \in DOMAIN results : ~results[k].stale

----------------------------------------------------------------------------
(* What deduceAll leaves alone *)

\* a step of a call of deduceAll
DeduceAllStep == Deduce \/ EngineStep

\* what of an expression reset would clear
ContentsOf(expr) ==
    [prefix |-> expr.prefix, operands |-> expr.operands, operators |-> expr.operators,
     tokens |-> expr.tokens, useTokenStream |-> expr.useTokenStream]

DefiniteStaysDefinite ==
    [][DeduceAllStep =>
         \A n \in DOMAIN props :
            props[n].truth_value # tUNKNOWN =>
               (n \in DOMAIN props' /\ props'[n].truth_value # tUNKNOWN)]_vars

\* a call has returned having overwritten a definite value with the other
\* definite value, and having given a value to a name that was UNKNOWN
DefiniteOverwritten ==
    /\ pc = "done"
    /\ \E n \in DOMAIN kb0 :
         /\ kb0[n].truth_value # tUNKNOWN
         /\ props[n].truth_value # kb0[n].truth_value
    /\ \E n \in DOMAIN kb0 :
         /\ kb0[n].truth_value = tUNKNOWN
         /\ props[n].truth_value # tUNKNOWN

----------------------------------------------------------------------------
(* Deducing early against deducing once *)

\* the caller's last call of deduce has returned
LastDeduceReturned == pc = "done" /\ caller.returned + 1 = MaxDeduces

\* C28: deducing, adding further propositions and facts and deducing again
\* ends with the truth values that adding everything first and deducing once
\* ends with, under some iteration order of the map.
IncrementalEqualsBatch ==
    LastDeduceReturned =>
       \E ord \in Perms(RuleKeys(caller.batch)) :
          SameValues(deduceAllIn(caller.batch, ord, MaxPasses), props)

====
